---------------------------- MODULE Spec2Model ----------------------------
(***************************************************************************)
(* A model of the analytics / scoring engine of blog-crm-microservice:     *)
(*   LeadScorer     src/unnamed/part_007                                   *)
(*   SEOAnalyzer    src/pkg/seo/analyzer.go                                *)
(*   TrendAnalyzer  src/pkg/analytics/trend_analyzer.go                    *)
(*   ROICalculator  src/pkg/analytics/roi_calculator.go                    *)
(*                                                                         *)
(* Go strings are TLA+ strings (bytes = characters: the inputs are ASCII). *)
(* Go float64 values are exact extended rationals [n, d]: d > 0 is a       *)
(* finite number n/d in lowest terms, d = 0 is +Inf (n = 1), -Inf (n = -1) *)
(* or NaN (n = 0), with the IEEE-754 rules for them.  Rounding error is    *)
(* not modelled: inputs with fractions are dyadic, so the operations the   *)
(* claims depend on are exact in float64 too.  Square roots are kept as    *)
(* their squares (ZScoreSq, VolatilitySq).  A time.Time is a number of     *)
(* hours since the zero time.                                              *)
(***************************************************************************)
EXTENDS Integers, Sequences, FiniteSets, TLC

(***************************************************************************)
(* Bounds of the model.                                                    *)
(***************************************************************************)
BigCount == 1000     \* a large value of an integer counter
MaxTicks == 1        \* days the wall clock may advance during a run
MaxCalls == 2        \* calls of one operation on the same input in a run
NowStart == 2400     \* wall clock (hours) when the run starts

(***************************************************************************)
(* float64                                                                 *)
(***************************************************************************)
Abs(x) == IF x < 0 THEN -x ELSE x

Sign(x) == IF x < 0 THEN -1 ELSE IF x > 0 THEN 1 ELSE 0

RECURSIVE GCD(_, _)
GCD(a, b) == IF b = 0 THEN a ELSE GCD(b, a % b)

\* The float64 n/d; d = 0 gives the IEEE-754 result of a division by zero.
Rat(n, d) ==
    IF d = 0 THEN [n |-> Sign(n), d |-> 0]
    ELSE LET g == GCD(Abs(n), Abs(d))
             s == Sign(d)
         IN  [n |-> (s * n) \div g, d |-> (s * d) \div g]

FromInt(i) == [n |-> i, d |-> 1]

IsNaN(a) == a.d = 0 /\ a.n = 0

IsInf(a) == a.d = 0 /\ a.n # 0

IsFinite(a) == a.d > 0

\* The sums and products reduce by common factors first, to keep the
\* intermediate integers small.
RAdd(a, b) ==
    IF IsInf(a) /\ IsInf(b) THEN (IF a.n = b.n THEN a ELSE [n |-> 0, d |-> 0])
    ELSE IF a.d = 0 \/ b.d = 0 THEN Rat(a.n * b.d + b.n * a.d, 0)
    ELSE LET g == GCD(a.d, b.d)
         IN  Rat(a.n * (b.d \div g) + b.n * (a.d \div g), (a.d \div g) * b.d)

RNeg(a) == [n |-> -a.n, d |-> a.d]

RSub(a, b) == RAdd(a, RNeg(b))

RMul(a, b) ==
    IF a.d = 0 \/ b.d = 0 THEN Rat(Sign(a.n) * Sign(b.n), 0)
    ELSE IF a.n = 0 \/ b.n = 0 THEN [n |-> 0, d |-> 1]
    ELSE LET g1 == GCD(Abs(a.n), b.d)
             g2 == GCD(Abs(b.n), a.d)
         IN  [n |-> (a.n \div g1) * (b.n \div g2), d |-> (a.d \div g2) * (b.d \div g1)]

\* x / y in float64: x / 0 is +Inf, -Inf or NaN, never a panic.
RDiv(a, b) ==
    IF IsInf(a) /\ IsInf(b) THEN [n |-> 0, d |-> 0]
    ELSE IF b.d = 0 THEN Rat(0, a.d)
    ELSE IF b.n = 0 THEN Rat(a.n, 0)
    ELSE RMul(a, [n |-> Sign(b.n) * b.d, d |-> Abs(b.n)])

\* a < b; false when either is NaN.
RLt(a, b) ==
    /\ ~IsNaN(a)
    /\ ~IsNaN(b)
    /\ IF a.d = 0 \/ b.d = 0
       THEN (IF IsInf(a) /\ IsInf(b) THEN a.n < b.n
             ELSE Sign(a.n) * b.d < Sign(b.n) * a.d)
       ELSE LET g == GCD(a.d, b.d) IN a.n * (b.d \div g) < b.n * (a.d \div g)

\* a <= b; false when either is NaN.
RLe(a, b) == ~IsNaN(a) /\ ~IsNaN(b) /\ ~RLt(b, a)

RGt(a, b) == RLt(b, a)

RGe(a, b) == RLe(b, a)

\* math.Min, math.Max: NaN if either argument is NaN.
RMin(a, b) ==
    IF IsNaN(a) \/ IsNaN(b) THEN [n |-> 0, d |-> 0] ELSE IF RLe(a, b) THEN a ELSE b

RMax(a, b) ==
    IF IsNaN(a) \/ IsNaN(b) THEN [n |-> 0, d |-> 0] ELSE IF RLe(a, b) THEN b ELSE a

RAbs(a) == [n |-> Abs(a.n), d |-> a.d]

\* int(x) of a finite float64: truncation toward zero.
RInt(a) == IF a.n >= 0 THEN a.n \div a.d ELSE -((-a.n) \div a.d)

RECURSIVE RSum(_)
RSum(s) == IF s = <<>> THEN FromInt(0) ELSE RAdd(Head(s), RSum(Tail(s)))

(***************************************************************************)
(* package strings                                                         *)
(***************************************************************************)
UpperChars == "ABCDEFGHIJKLMNOPQRSTUVWXYZ"

LowerChars == "abcdefghijklmnopqrstuvwxyz"

Char(s, i) == SubSeq(s, i, i)

ToLowerChar(c) ==
    IF \E i \in 1..26 : Char(UpperChars, i) = c
    THEN Char(LowerChars, CHOOSE i \in 1..26 : Char(UpperChars, i) = c)
    ELSE c

\* strings.ToLower of s[lo..hi], halving the range.
RECURSIVE ToLowerRange(_, _, _)
ToLowerRange(s, lo, hi) ==
    IF lo > hi THEN ""
    ELSE IF lo = hi THEN ToLowerChar(Char(s, lo))
    ELSE LET mid == (lo + hi) \div 2
         IN  ToLowerRange(s, lo, mid) \o ToLowerRange(s, mid + 1, hi)

ToLower(s) == ToLowerRange(s, 1, Len(s))

HasPrefixAt(s, sub, i) == SubSeq(s, i, i + Len(sub) - 1) = sub

Contains(s, sub) == \E i \in 1..(Len(s) - Len(sub) + 1) : HasPrefixAt(s, sub, i)

ContainsAny(s, words) == \E w \in words : Contains(s, w)

(***************************************************************************)
(* LeadScorer (src/unnamed/part_007)                                       *)
(***************************************************************************)
ZeroTime == 0        \* the zero time.Time (IsZero)

HoursPerDay == 24

Pts(i) == FromInt(i)

scoreJobTitle(title) ==
    LET t == ToLower(title)
    IN  IF ContainsAny(t, {"ceo", "cto", "cfo", "cmo", "vp", "vice president",
                           "director", "head of", "chief"}) THEN Pts(90)
        ELSE IF ContainsAny(t, {"manager", "lead", "senior", "principal",
                                "architect", "consultant"}) THEN Pts(70)
        ELSE IF ContainsAny(t, {"developer", "engineer", "analyst", "specialist",
                                "coordinator", "associate"}) THEN Pts(50)
        ELSE Pts(30)

scoreIndustry(industry) ==
    LET t == ToLower(industry)
    IN  IF ContainsAny(t, {"technology", "software", "saas", "fintech",
                           "healthtech", "edtech", "startup"}) THEN Pts(90)
        ELSE IF ContainsAny(t, {"finance", "healthcare", "education", "retail",
                                "ecommerce", "manufacturing"}) THEN Pts(70)
        ELSE Pts(50)

scoreLocation(location) ==
    IF ContainsAny(ToLower(location), {"india", "usa", "canada", "uk", "australia",
                                       "singapore", "germany", "france"})
    THEN Pts(85) ELSE Pts(60)

scoreExperienceLevel(experience) ==
    LET t == ToLower(experience)
    IN  IF Contains(t, "senior") \/ Contains(t, "lead") THEN Pts(80)
        ELSE IF Contains(t, "mid") \/ Contains(t, "intermediate") THEN Pts(70)
        ELSE IF Contains(t, "junior") \/ Contains(t, "entry") THEN Pts(50)
        ELSE Pts(60)

scoreEngagementLevel(b) ==
    LET pv == IF b.PageViews >= 10 THEN 30 ELSE IF b.PageViews >= 5 THEN 20
              ELSE IF b.PageViews >= 2 THEN 10 ELSE 0
        ts == IF b.TotalTimeOnSite >= 1800 THEN 30 ELSE IF b.TotalTimeOnSite >= 900 THEN 20
              ELSE IF b.TotalTimeOnSite >= 300 THEN 10 ELSE 0
        vc == IF b.VisitCount >= 5 THEN 40 ELSE IF b.VisitCount >= 3 THEN 25
              ELSE IF b.VisitCount >= 2 THEN 15 ELSE 0
    IN  RMin(Pts(pv + ts + vc), Pts(100))

scoreContentConsumption(b) ==
    LET bp == IF b.BlogPostsRead >= 5 THEN 30 ELSE IF b.BlogPostsRead >= 3 THEN 20
              ELSE IF b.BlogPostsRead >= 1 THEN 10 ELSE 0
        vw == IF b.VideoWatchTime >= 600 THEN 25 ELSE IF b.VideoWatchTime >= 300 THEN 15
              ELSE IF b.VideoWatchTime >= 60 THEN 5 ELSE 0
    IN  RMin(Pts(bp + b.Downloads * 15 + vw + b.SocialEngagements * 5), Pts(100))

scoreWebsiteActivity(b) ==
    LET avgPagesPerSession == RDiv(FromInt(b.PageViews), FromInt(b.VisitCount))
        depth == IF RGe(avgPagesPerSession, Pts(5)) THEN 25
                 ELSE IF RGe(avgPagesPerSession, Pts(3)) THEN 15
                 ELSE IF RGe(avgPagesPerSession, Pts(2)) THEN 10 ELSE 0
        pages == (IF b.ServicePagesVisited THEN 30 ELSE 0)
                 + (IF b.PricingPagesVisited THEN 35 ELSE 0)
                 + (IF b.ContactPagesVisited THEN 20 ELSE 0)
    IN  RMin(Pts(depth + pages + b.SearchQueries * 5), Pts(100))

\* now is the wall clock that time.Since reads.
scoreRecency(lastActivity, now) ==
    IF lastActivity = ZeroTime THEN Pts(0)
    ELSE LET daysSinceActivity == Rat(now - lastActivity, HoursPerDay)
         IN  IF RLe(daysSinceActivity, Pts(1)) THEN Pts(100)
             ELSE IF RLe(daysSinceActivity, Pts(7)) THEN Pts(80)
             ELSE IF RLe(daysSinceActivity, Pts(30)) THEN Pts(60)
             ELSE IF RLe(daysSinceActivity, Pts(90)) THEN Pts(40)
             ELSE Pts(20)

scoreCompanySize(size) ==
    LET t == ToLower(size)
    IN  IF Contains(t, "enterprise") \/ Contains(t, "large") THEN Pts(90)
        ELSE IF Contains(t, "medium") \/ Contains(t, "mid") THEN Pts(80)
        ELSE IF Contains(t, "small") \/ Contains(t, "startup") THEN Pts(70)
        ELSE Pts(60)

scoreIndustryFit(industry) == scoreIndustry(industry)

scoreRevenue(revenue) ==
    LET t == ToLower(revenue)
    IN  IF Contains(t, "100m+") \/ Contains(t, "billion") THEN Pts(95)
        ELSE IF Contains(t, "50m") \/ Contains(t, "10m") THEN Pts(85)
        ELSE IF Contains(t, "1m") \/ Contains(t, "5m") THEN Pts(75)
        ELSE IF Contains(t, "500k") \/ Contains(t, "1m") THEN Pts(65)
        ELSE Pts(50)

scoreTechnologyStack(stack) ==
    IF Len(stack) = 0 THEN Pts(50)
    ELSE LET relevantTech == {"react", "node", "python", "go", "aws", "azure", "gcp",
                              "kubernetes", "docker"}
             matchCount == Cardinality({i \in 1..Len(stack) :
                                           ContainsAny(ToLower(stack[i]), relevantTech)})
         IN  RMin(Pts(50 + matchCount * 10), Pts(100))

scoreSourceType(sourceType) ==
    LET t == ToLower(sourceType)
    IN  CASE t = "contact_form" -> Pts(95)
          [] t = "download"     -> Pts(85)
          [] t = "newsletter"   -> Pts(70)
          [] t = "cta"          -> Pts(80)
          [] t = "social_share" -> Pts(60)
          [] OTHER              -> Pts(50)

contentTypeScore(contentType) ==
    LET t == ToLower(contentType)
    IN  CASE t = "case_study" -> Pts(90)
          [] t = "whitepaper" -> Pts(85)
          [] t = "webinar"    -> Pts(80)
          [] t = "tutorial"   -> Pts(70)
          [] t = "blog"       -> Pts(60)
          [] OTHER            -> Pts(50)

scoreContentTypeEngagement(contentTypes) ==
    IF Len(contentTypes) = 0 THEN Pts(40)
    ELSE LET totalScore == RSum([i \in 1..Len(contentTypes) |->
                                    contentTypeScore(contentTypes[i])])
         IN  RMin(RDiv(totalScore, FromInt(Len(contentTypes))), Pts(100))

scoreCTAInteraction(interactions) ==
    IF interactions >= 5 THEN Pts(100) ELSE IF interactions >= 3 THEN Pts(80)
    ELSE IF interactions >= 1 THEN Pts(60) ELSE Pts(20)

scoreFormCompletions(completions) ==
    IF completions >= 3 THEN Pts(100) ELSE IF completions >= 2 THEN Pts(85)
    ELSE IF completions >= 1 THEN Pts(70) ELSE Pts(30)

\* score += part * weight/100, for each part, as the code accumulates it.
RECURSIVE Blend(_)
Blend(parts) ==
    IF parts = <<>> THEN FromInt(0)
    ELSE RAdd(Blend(SubSeq(parts, 1, Len(parts) - 1)),
              RMul(parts[Len(parts)][1], Rat(parts[Len(parts)][2], 100)))

calculateDemographicScore(demo) ==
    Blend(<< <<scoreJobTitle(demo.JobTitle), 40>>,
             <<scoreIndustry(demo.Industry), 30>>,
             <<scoreLocation(demo.Location), 20>>,
             <<scoreExperienceLevel(demo.ExperienceLevel), 10>> >>)

calculateBehavioralScore(behavior, now) ==
    Blend(<< <<scoreEngagementLevel(behavior), 30>>,
             <<scoreContentConsumption(behavior), 25>>,
             <<scoreWebsiteActivity(behavior), 25>>,
             <<scoreRecency(behavior.LastActivity, now), 20>> >>)

calculateFirmographicScore(company) ==
    IF company.Name = "" THEN Pts(50)
    ELSE Blend(<< <<scoreCompanySize(company.Size), 40>>,
                  <<scoreIndustryFit(company.Industry), 30>>,
                  <<scoreRevenue(company.Revenue), 20>>,
                  <<scoreTechnologyStack(company.TechnologyStack), 10>> >>)

calculateIntentScore(intent) ==
    Blend(<< <<scoreSourceType(intent.SourceType), 30>>,
             <<scoreContentTypeEngagement(intent.ContentTypes), 25>>,
             <<scoreCTAInteraction(intent.CTAInteractions), 25>>,
             <<scoreFormCompletions(intent.FormCompletions), 20>> >>)

\* The four category scores added up without their weights and without the cap.
UncappedLeadScore(p, now) ==
    RInt(RAdd(RAdd(RAdd(calculateDemographicScore(p.Demographics),
                        calculateBehavioralScore(p.Behavior, now)),
                   calculateFirmographicScore(p.Company)),
              calculateIntentScore(p.Intent)))

CalculateLeadScore(p, now) ==
    RInt(RMin(Blend(<< <<calculateDemographicScore(p.Demographics), 25>>,
                       <<calculateBehavioralScore(p.Behavior, now), 35>>,
                       <<calculateFirmographicScore(p.Company), 25>>,
                       <<calculateIntentScore(p.Intent), 15>> >>),
              Pts(100)))

\* A threshold of 60 where the code has 80 and the reverse.
SwappedQualifyLead(leadScore, p) ==
    IF leadScore >= 60 THEN "hot"
    ELSE IF leadScore >= 80 THEN "warm"
    ELSE IF leadScore >= 40 THEN "cold"
    ELSE "unqualified"

AutoQualifyLead(leadScore, p) ==
    IF leadScore >= 80 THEN "hot"
    ELSE IF leadScore >= 60 THEN "warm"
    ELSE IF leadScore >= 40 THEN "cold"
    ELSE "unqualified"

(***************************************************************************)
(* TrendAnalyzer (src/pkg/analytics/trend_analyzer.go)                     *)
(* A TrendDataPoint is [Date, Value]: Date in hours, Value a float64.      *)
(***************************************************************************)
ForecastDays == 30

Zero == FromInt(0)

RSq(a) == RMul(a, a)

\* Date.Sub(baseTime).Hours() / 24
DaysSince(date, baseTime) == Rat(date - baseTime, HoursPerDay)

\* Date.Weekday(): 0 is Sunday; the zero time is a Monday.
Weekday(date) == ((date \div HoursPerDay) + 1) % 7

\* Date.Month(), for the dates of the first three years (none is a leap year).
Month(date) ==
    LET yday == (date \div HoursPerDay) % 365
        ends == <<31, 59, 90, 120, 151, 181, 212, 243, 273, 304, 334, 365>>
    IN  CHOOSE m \in 1..12 : yday < ends[m] /\ (m = 1 \/ yday >= ends[m - 1])

\* One pass of the inner loop of the insertion sort sort.Slice runs on up to
\* 12 elements: x moves left past every element it is Before.
RECURSIVE InsertByDate(_, _)
InsertByDate(sorted, x) ==
    IF sorted = <<>> \/ ~(x.Date < sorted[Len(sorted)].Date)
    THEN Append(sorted, x)
    ELSE Append(InsertByDate(SubSeq(sorted, 1, Len(sorted) - 1), x), sorted[Len(sorted)])

\* The series analysed in the order it came in.
KeepOrder(data) == data

\* sort.Slice(data, Date.Before).  Beyond 12 elements sort.Slice switches to
\* pdqsort, which orders points of distinct dates the same way.
RECURSIVE SortByDate(_)
SortByDate(data) ==
    IF data = <<>> THEN <<>>
    ELSE InsertByDate(SortByDate(SubSeq(data, 1, Len(data) - 1)), data[Len(data)])

Values(data) == [i \in 1..Len(data) |-> data[i].Value]

RECURSIVE RMinOf(_)
RMinOf(s) == IF Len(s) = 1 THEN s[1]
             ELSE LET m == RMinOf(SubSeq(s, 1, Len(s) - 1))
                  IN  IF RLt(s[Len(s)], m) THEN s[Len(s)] ELSE m

RECURSIVE RMaxOf(_)
RMaxOf(s) == IF Len(s) = 1 THEN s[1]
             ELSE LET m == RMaxOf(SubSeq(s, 1, Len(s) - 1))
                  IN  IF RGt(s[Len(s)], m) THEN s[Len(s)] ELSE m

calculateBasicStats(data) ==
    IF Len(data) = 0 THEN [min |-> Zero, max |-> Zero, avg |-> Zero]
    ELSE [min |-> RMinOf(Values(data)), max |-> RMaxOf(Values(data)),
          avg |-> RDiv(RSum(Values(data)), FromInt(Len(data)))]

calculateLinearRegression(data) ==
    IF Len(data) < 2 THEN [Slope |-> Zero, Intercept |-> Zero, RSquared |-> Zero]
    ELSE LET n == FromInt(Len(data))
             X(i) == DaysSince(data[i].Date, data[1].Date)
             Y(i) == data[i].Value
             idx == 1..Len(data)
             sumX == RSum([i \in idx |-> X(i)])
             sumY == RSum([i \in idx |-> Y(i)])
             sumXY == RSum([i \in idx |-> RMul(X(i), Y(i))])
             sumX2 == RSum([i \in idx |-> RSq(X(i))])
             slope == RDiv(RSub(RMul(n, sumXY), RMul(sumX, sumY)),
                           RSub(RMul(n, sumX2), RMul(sumX, sumX)))
             intercept == RDiv(RSub(sumY, RMul(slope, sumX)), n)
             meanY == RDiv(sumY, n)
             ssRes == RSum([i \in idx |->
                              RSq(RSub(Y(i), RAdd(RMul(slope, X(i)), intercept)))])
             ssTot == RSum([i \in idx |-> RSq(RSub(Y(i), meanY))])
         IN  [Slope |-> slope, Intercept |-> intercept,
              RSquared |-> IF ssTot = Zero THEN Zero
                           ELSE RSub(FromInt(1), RDiv(ssRes, ssTot))]

\* The thresholds ten times as high: 1 and 0.1 in place of 0.1 and 0.01.
CoarseTrendDirection(slope) ==
    IF RGt(slope, FromInt(1)) THEN "strongly_increasing"
    ELSE IF RGt(slope, Rat(1, 10)) THEN "increasing"
    ELSE IF RLt(slope, FromInt(-1)) THEN "strongly_decreasing"
    ELSE IF RLt(slope, Rat(-1, 10)) THEN "decreasing"
    ELSE "stable"

determineTrendDirection(slope) ==
    IF RGt(slope, Rat(1, 10)) THEN "strongly_increasing"
    ELSE IF RGt(slope, Rat(1, 100)) THEN "increasing"
    ELSE IF RLt(slope, Rat(-1, 10)) THEN "strongly_decreasing"
    ELSE IF RLt(slope, Rat(-1, 100)) THEN "decreasing"
    ELSE "stable"

calculateTrendStrength(rSquared) ==
    IF RGe(rSquared, Rat(9, 10)) THEN "very_strong"
    ELSE IF RGe(rSquared, Rat(7, 10)) THEN "strong"
    ELSE IF RGe(rSquared, Rat(5, 10)) THEN "moderate"
    ELSE IF RGe(rSquared, Rat(3, 10)) THEN "weak"
    ELSE "very_weak"

calculateTotalGrowth(startValue, endValue) ==
    IF startValue = Zero THEN Zero
    ELSE RMul(RDiv(RSub(endValue, startValue), startValue), FromInt(100))

\* The period-over-period percentage changes, periods with a zero previous
\* value skipped.
RECURSIVE Changes(_)
Changes(data) ==
    IF Len(data) < 2 THEN <<>>
    ELSE LET rest == Changes(SubSeq(data, 1, Len(data) - 1))
             current == data[Len(data)].Value
             previous == data[Len(data) - 1].Value
         IN  IF previous # Zero
             THEN Append(rest, RMul(RDiv(RSub(current, previous), previous), FromInt(100)))
             ELSE rest

calculateAverageGrowthRate(data) ==
    IF Len(data) < 2 \/ Changes(data) = <<>> THEN Zero
    ELSE RDiv(RSum(Changes(data)), FromInt(Len(Changes(data))))

\* The average of the values of the points that key (Weekday or Month) maps to k.
GroupAverages(data, key(_)) ==
    LET keys == {key(data[i].Date) : i \in 1..Len(data)}
        group(k) == {i \in 1..Len(data) : key(data[i].Date) = k}
        sumOf(S) == LET RECURSIVE sum(_)
                        sum(T) == IF T = {} THEN Zero
                                  ELSE LET i == CHOOSE x \in T : TRUE
                                       IN  RAdd(data[i].Value, sum(T \ {i}))
                    IN  sum(S)
    IN  [k \in keys |-> RDiv(sumOf(group(k)), FromInt(Cardinality(group(k))))]

detectSeasonality(data) ==
    IF Len(data) < 7
    THEN [HasSeasonality |-> FALSE, DayOfWeekPattern |-> <<>>, MonthlyPattern |-> <<>>]
    ELSE LET dayAverages == GroupAverages(data, Weekday)
             overallAverage == RDiv(RSum(Values(data)), FromInt(Len(data)))
             significantVariations ==
                 Cardinality({d \in DOMAIN dayAverages :
                     RGt(RAbs(RDiv(RSub(dayAverages[d], overallAverage), overallAverage)),
                         Rat(2, 10))})
         IN  [HasSeasonality |-> significantVariations >= 2,
              DayOfWeekPattern |-> dayAverages,
              MonthlyPattern |-> IF Len(data) > 30 THEN GroupAverages(data, Month)
                                 ELSE <<>>]

classifyAnomalyType(actual, expected) ==
    IF RGt(actual, RMul(expected, Rat(3, 2))) THEN "spike"
    ELSE IF RLt(actual, RMul(expected, Rat(1, 2))) THEN "dip"
    ELSE IF RGt(actual, expected) THEN "positive_outlier"
    ELSE "negative_outlier"

\* The window size and the 0-based indexes the loop evaluates.
WindowSize(n) == IF n < 7 THEN n \div 2 ELSE 7

EvaluatedIndexes(n) == {i \in 0..(n - 1) : i >= WindowSize(n) /\ i < n - WindowSize(n)}

\* The loop stopped at the point itself: j <= i for j <= i + windowSize/2.
OneSidedWindow(n, i) == {j \in (i - WindowSize(n) \div 2)..i : j # i}

\* The 0-based indexes j of which the loops of lines 306 and 322 read
\* data[j] for the index i of a series of n points.
WindowIndexes(n, i) ==
    {j \in (i - WindowSize(n) \div 2)..(i + WindowSize(n) \div 2) : j # i}

\* sum += data[j].Value over the indexes js.
RECURSIVE SumOver(_, _)
SumOver(data, js) ==
    IF js = {} THEN Zero
    ELSE LET j == CHOOSE x \in js : \A y \in js : x >= y
         IN  RAdd(SumOver(data, js \ {j}), data[j + 1].Value)

\* sumSquaredDiff += diff * diff over the indexes js.
RECURSIVE SumSqDiffOver(_, _, _)
SumSqDiffOver(data, js, mean) ==
    IF js = {} THEN Zero
    ELSE LET j == CHOOSE x \in js : \A y \in js : x >= y
         IN  RAdd(SumSqDiffOver(data, js \ {j}, mean), RSq(RSub(data[j + 1].Value, mean)))

\* What the loop body appends for the 0-based index i: <<>> or one Anomaly.
\* ZScoreSq is the square of the ZScore the code stores.
AnomalyAt(data, i) ==
    LET window == WindowIndexes(Len(data), i)
        count == Cardinality(window)
        mean == RDiv(SumOver(data, window), FromInt(count))
        sumSquaredDiff == SumSqDiffOver(data, window, mean)
        variance == RDiv(sumSquaredDiff, FromInt(count - 1))
        currentValue == data[i + 1].Value
        absDiff == RAbs(RSub(currentValue, mean))
        zScoreSq == IF RGt(variance, Zero) THEN RDiv(RSq(absDiff), variance)
                    ELSE RSq(absDiff)
    IN  IF count = 0 THEN <<>>
        ELSE IF RGt(zScoreSq, FromInt(4))
        THEN << [Date |-> data[i + 1].Date, Value |-> currentValue, Expected |-> mean,
                 Deviation |-> RSub(currentValue, mean), ZScoreSq |-> zScoreSq,
                 Type |-> classifyAnomalyType(currentValue, mean)] >>
        ELSE <<>>

RECURSIVE AnomaliesUpTo(_, _)
AnomaliesUpTo(data, i) ==
    IF i < WindowSize(Len(data)) THEN <<>>
    ELSE AnomaliesUpTo(data, i - 1) \o AnomalyAt(data, i)

detectAnomalies(data) ==
    IF Len(data) < 3 THEN <<>>
    ELSE AnomaliesUpTo(data, Len(data) - WindowSize(Len(data)) - 1)

\* The square of calculateVolatility: the variance of the changes.
calculateVolatilitySq(data) ==
    IF Len(data) < 2 \/ Changes(data) = <<>> THEN Zero
    ELSE LET changes == Changes(data)
             mean == RDiv(RSum(changes), FromInt(Len(changes)))
         IN  RDiv(RSum([k \in 1..Len(changes) |-> RSq(RSub(changes[k], mean))]),
                  FromInt(Len(changes)))

\* LowerBound and UpperBound are PredictedValue -/+ the root of
\* ConfidenceIntervalSq = (1.96 * volatility)^2.
generateForecast(data, days) ==
    IF Len(data) < 2 THEN <<>>
    ELSE LET regression == calculateLinearRegression(data)
             ciSq == RMul(calculateVolatilitySq(data), RSq(Rat(196, 100)))
         IN  [i \in 1..days |->
                 LET forecastDate == data[Len(data)].Date + i * HoursPerDay
                 IN  [Date |-> forecastDate,
                      PredictedValue |->
                          RAdd(RMul(regression.Slope, DaysSince(forecastDate, data[1].Date)),
                               regression.Intercept),
                      ConfidenceIntervalSq |-> ciSq]]

generateInsights(analysis) ==
    (CASE analysis.TrendDirection = "strongly_increasing" ->
            <<"Strong upward trend detected. Content performance is improving significantly.">>
       [] analysis.TrendDirection = "increasing" ->
            <<"Positive trend observed. Content performance is gradually improving.">>
       [] analysis.TrendDirection = "strongly_decreasing" ->
            <<"Strong downward trend detected. Immediate attention needed to reverse declining performance.">>
       [] analysis.TrendDirection = "decreasing" ->
            <<"Negative trend observed. Consider reviewing content strategy.">>
       [] analysis.TrendDirection = "stable" ->
            <<"Performance is stable. Look for optimization opportunities.">>
       [] OTHER -> <<>>)
    \o (IF RGt(analysis.VolatilitySq, FromInt(2500))
        THEN <<"High volatility detected. Performance is inconsistent - consider standardizing content quality.">>
        ELSE IF RLt(analysis.VolatilitySq, FromInt(100))
        THEN <<"Low volatility suggests consistent performance. Good content strategy execution.">>
        ELSE <<>>)
    \o (IF analysis.SeasonalityAnalysis.HasSeasonality
        THEN <<"Seasonal patterns detected. Consider timing content releases based on historical performance.">>
        ELSE <<>>)
    \o (IF Len(analysis.Anomalies) > 0
        THEN <<"Found " \o ToString(Len(analysis.Anomalies))
                 \o " anomalies in the data. Investigate unusual spikes or dips for insights.">>
        ELSE <<>>)
    \o (IF RGt(analysis.TotalGrowth, FromInt(50))
        THEN <<"Excellent growth performance! Current strategy is highly effective.">>
        ELSE IF RGt(analysis.TotalGrowth, FromInt(20))
        THEN <<"Good growth performance. Consider scaling successful tactics.">>
        ELSE IF RLt(analysis.TotalGrowth, FromInt(-20))
        THEN <<"Declining performance requires immediate strategic review and optimization.">>
        ELSE <<>>)

\* The zero TrendAnalysis.
EmptyTrendAnalysis ==
    [Points |-> 0, Status |-> "", StartDate |-> ZeroTime, EndDate |-> ZeroTime,
     StartValue |-> Zero, EndValue |-> Zero, MinValue |-> Zero, MaxValue |-> Zero,
     AverageValue |-> Zero,
     LinearRegression |-> [Slope |-> Zero, Intercept |-> Zero, RSquared |-> Zero],
     TrendDirection |-> "", TrendStrength |-> "", TotalGrowth |-> Zero,
     AverageGrowthRate |-> Zero,
     SeasonalityAnalysis |-> [HasSeasonality |-> FALSE, DayOfWeekPattern |-> <<>>,
                              MonthlyPattern |-> <<>>],
     Anomalies |-> <<>>, VolatilitySq |-> Zero, Forecast |-> <<>>, Insights |-> <<>>,
     DataPoints |-> <<>>]

\* AnalyzeTrends from line 32 on: data is the slice as sort.Slice left it.
AnalyzeSorted(data) ==
    LET stats == calculateBasicStats(data)
        regression == calculateLinearRegression(data)
        analysis ==
            [EmptyTrendAnalysis EXCEPT
                !.Points = Len(data),
                !.StartDate = data[1].Date,
                !.EndDate = data[Len(data)].Date,
                !.StartValue = data[1].Value,
                !.EndValue = data[Len(data)].Value,
                !.DataPoints = data,
                !.MinValue = stats.min,
                !.MaxValue = stats.max,
                !.AverageValue = stats.avg,
                !.LinearRegression = regression,
                !.TrendDirection = determineTrendDirection(regression.Slope),
                !.TrendStrength = calculateTrendStrength(regression.RSquared),
                !.TotalGrowth = calculateTotalGrowth(data[1].Value, data[Len(data)].Value),
                !.AverageGrowthRate = calculateAverageGrowthRate(data),
                !.SeasonalityAnalysis = detectSeasonality(data),
                !.Anomalies = detectAnomalies(data),
                !.VolatilitySq = calculateVolatilitySq(data),
                !.Forecast = generateForecast(data, ForecastDays)]
    IN  [analysis EXCEPT !.Insights = generateInsights(analysis)]

\* The guard of line 20 off by one: two points are refused as well.
AnalyzeTrendsFromThree(data) ==
    IF Len(data) <= 2
    THEN [EmptyTrendAnalysis EXCEPT !.Status = "insufficient_data", !.Points = Len(data)]
    ELSE AnalyzeSorted(SortByDate(data))

\* The TrendAnalysis a call returns; the call leaves SortByDate(data) in the
\* caller's slice when Len(data) >= 2 (DataPoints shares its array).
AnalyzeTrends(data) ==
    IF Len(data) < 2
    THEN [EmptyTrendAnalysis EXCEPT !.Status = "insufficient_data", !.Points = Len(data)]
    ELSE AnalyzeSorted(SortByDate(data))

(***************************************************************************)
(* ROICalculator (src/pkg/analytics/roi_calculator.go)                     *)
(***************************************************************************)
calculateTotalInvestment(investment) ==
    RAdd(RAdd(RAdd(RAdd(investment.CreationCost, investment.PromotionCost),
                   investment.ToolsCost),
              RMul(investment.TimeInvested, investment.HourlyRate)),
         investment.OpportunityCost)

calculateDirectRevenue(conversions) ==
    RSum([k \in 1..Len(conversions) |-> conversions[k].Revenue])

\* math.Exp(-0.1 * days), with e^-0.1 = 0.9048... cut to 9/10; exact for days = 0.
RECURSIVE calculateTimeDecayWeight(_)
calculateTimeDecayWeight(daysFromTouch) ==
    IF daysFromTouch = 0 THEN FromInt(1)
    ELSE IF daysFromTouch > 0
    THEN RMul(Rat(9, 10), calculateTimeDecayWeight(daysFromTouch - 1))
    ELSE RMul(Rat(10, 9), calculateTimeDecayWeight(daysFromTouch + 1))

\* The last touch given the first touch's 40%, the first touch the last's 20%.
SwappedPositionWeight(position, total) ==
    IF total = 1 THEN FromInt(1)
    ELSE IF position = 1 THEN Rat(2, 10)
    ELSE IF position = total THEN Rat(4, 10)
    ELSE IF total - 2 > 0 THEN RDiv(Rat(4, 10), FromInt(total - 2))
    ELSE Zero

calculatePositionBasedWeight(position, total) ==
    IF total = 1 THEN FromInt(1)
    ELSE IF position = 1 THEN Rat(4, 10)
    ELSE IF position = total THEN Rat(2, 10)
    ELSE IF total - 2 > 0 THEN RDiv(Rat(4, 10), FromInt(total - 2))
    ELSE Zero

\* The default case dropped: a model of no known name attributes nothing.
KnownModelRevenue(c, model) ==
    CASE model = "first_touch" -> IF c.IsFirstTouch THEN c.Revenue ELSE Zero
      [] model = "last_touch" -> IF c.IsLastTouch THEN c.Revenue ELSE Zero
      [] model = "linear" -> RMul(c.Revenue, c.AttributionWeight)
      [] model = "time_decay" -> RMul(c.Revenue, calculateTimeDecayWeight(c.DaysFromTouch))
      [] model = "position_based" ->
            RMul(c.Revenue, calculatePositionBasedWeight(c.TouchPosition, c.TotalTouches))
      [] OTHER -> Zero

\* What one attributed conversion adds to the total under the model.
AttributedRevenue(c, model) ==
    CASE model = "first_touch" -> IF c.IsFirstTouch THEN c.Revenue ELSE Zero
      [] model = "last_touch" -> IF c.IsLastTouch THEN c.Revenue ELSE Zero
      [] model = "linear" -> RMul(c.Revenue, c.AttributionWeight)
      [] model = "time_decay" -> RMul(c.Revenue, calculateTimeDecayWeight(c.DaysFromTouch))
      [] model = "position_based" ->
            RMul(c.Revenue, calculatePositionBasedWeight(c.TouchPosition, c.TotalTouches))
      [] OTHER -> RMul(c.Revenue, c.AttributionWeight)

calculateIndirectRevenue(conversions, model) ==
    RSum([k \in 1..Len(conversions) |-> AttributedRevenue(conversions[k], model)])

calculatePaybackPeriod(investment, revenue, periodDays) ==
    IF RLe(revenue, Zero) THEN FromInt(-1)
    ELSE LET dailyRevenue == RDiv(revenue, FromInt(periodDays))
         IN  IF RLe(dailyRevenue, Zero) THEN FromInt(-1)
             ELSE RDiv(investment, dailyRevenue)

calculateCLVImpact(newCustomers, averageCLV) == RMul(FromInt(newCustomers), averageCLV)

calculateLeadValue(leads, totalRevenue) ==
    IF leads = 0 THEN Zero ELSE RDiv(totalRevenue, FromInt(leads))

calculateCostPerLead(investment, leads) ==
    IF leads = 0 THEN Zero ELSE RDiv(investment, FromInt(leads))

calculateCostPerAcquisition(investment, conversions) ==
    IF Len(conversions) = 0 THEN Zero ELSE RDiv(investment, FromInt(Len(conversions)))

calculateEngagementValue(engagement, valueMetrics) ==
    RSum(<< RMul(FromInt(engagement.PageViews), valueMetrics.PageViewValue),
            RMul(FromInt(engagement.SocialShares), valueMetrics.ShareValue),
            RMul(FromInt(engagement.Comments), valueMetrics.CommentValue),
            RMul(FromInt(engagement.Downloads), valueMetrics.DownloadValue),
            RMul(FromInt(engagement.NewsletterSignups), valueMetrics.SignupValue) >>)

calculateBrandValue(metrics) ==
    RSum(<< RMul(metrics.BrandMentions, metrics.MentionValue), metrics.BacklinkValue,
            metrics.SearchVisibilityValue, metrics.ThoughtLeadershipValue >>)

\* The guard dropped: the quotient taken whatever the investment.
UnguardedROIPercentage(totalRevenue, totalInvestment) ==
    RMul(RDiv(RSub(totalRevenue, totalInvestment), totalInvestment), FromInt(100))

\* result.ROIPercentage, the zero value of the field unless the guard passes.
ROIPercentage(totalRevenue, totalInvestment) ==
    IF RGt(totalInvestment, Zero)
    THEN RMul(RDiv(RSub(totalRevenue, totalInvestment), totalInvestment), FromInt(100))
    ELSE Zero

CalculateContentROI(metrics) ==
    LET totalInvestment == calculateTotalInvestment(metrics.Investment)
        directRevenue == calculateDirectRevenue(metrics.DirectConversions)
        indirectRevenue == calculateIndirectRevenue(metrics.AttributedConversions,
                                                    metrics.AttributionModel)
        totalRevenue == RAdd(directRevenue, indirectRevenue)
    IN  [ContentID |-> metrics.ContentID,
         Title |-> metrics.Title,
         PublishedAt |-> metrics.PublishedAt,
         Period |-> metrics.Period,
         TotalInvestment |-> totalInvestment,
         DirectRevenue |-> directRevenue,
         IndirectRevenue |-> indirectRevenue,
         TotalRevenue |-> totalRevenue,
         ROIPercentage |-> ROIPercentage(totalRevenue, totalInvestment),
         PaybackPeriod |-> calculatePaybackPeriod(totalInvestment, totalRevenue,
                                                  metrics.Period),
         CLVImpact |-> calculateCLVImpact(metrics.NewCustomers, metrics.AverageCLV),
         LeadValue |-> calculateLeadValue(metrics.Leads, totalRevenue),
         CostPerLead |-> calculateCostPerLead(totalInvestment, metrics.Leads),
         CostPerAcquisition |-> calculateCostPerAcquisition(totalInvestment,
                                                            metrics.DirectConversions),
         EngagementValue |-> calculateEngagementValue(metrics.Engagement,
                                                      metrics.EngagementValue),
         BrandValue |-> calculateBrandValue(metrics.BrandMetrics)]

\* The zero value of ContentROIResult.
EmptyContentROIResult ==
    [ContentID |-> 0, Title |-> "", PublishedAt |-> ZeroTime, Period |-> 0,
     TotalInvestment |-> Zero, DirectRevenue |-> Zero, IndirectRevenue |-> Zero,
     TotalRevenue |-> Zero, ROIPercentage |-> Zero, PaybackPeriod |-> Zero,
     CLVImpact |-> Zero, LeadValue |-> Zero, CostPerLead |-> Zero,
     CostPerAcquisition |-> Zero, EngagementValue |-> Zero, BrandValue |-> Zero]

\* The items counted, not their amounts added.
CountOnly(s) == Len(s)

\* An int accumulated over the items with +=.
RECURSIVE IntSum(_)
IntSum(s) == IF s = <<>> THEN 0 ELSE Head(s) + IntSum(Tail(s))

\* The loop taking over on >= and <=: of equal results the latest wins.
RECURSIVE BestWorstLatest(_, _)
BestWorstLatest(results, k) ==
    IF k = 0
    THEN [bestROI |-> Rat(-1, 0), worstROI |-> Rat(1, 0),
          best |-> EmptyContentROIResult, worst |-> EmptyContentROIResult]
    ELSE LET prev == BestWorstLatest(results, k - 1)
             contentResult == results[k]
             isBest == RGe(contentResult.ROIPercentage, prev.bestROI)
             isWorst == RLe(contentResult.ROIPercentage, prev.worstROI)
         IN  [bestROI |-> IF isBest THEN contentResult.ROIPercentage ELSE prev.bestROI,
              worstROI |-> IF isWorst THEN contentResult.ROIPercentage ELSE prev.worstROI,
              best |-> IF isBest THEN contentResult ELSE prev.best,
              worst |-> IF isWorst THEN contentResult ELSE prev.worst]

\* The best/worst loop after the first k results: [bestROI, worstROI, best, worst].
RECURSIVE BestWorstUpTo(_, _)
BestWorstUpTo(results, k) ==
    IF k = 0
    THEN [bestROI |-> Rat(-1, 0), worstROI |-> Rat(1, 0),
          best |-> EmptyContentROIResult, worst |-> EmptyContentROIResult]
    ELSE LET prev == BestWorstUpTo(results, k - 1)
             contentResult == results[k]
             isBest == RGt(contentResult.ROIPercentage, prev.bestROI)
             isWorst == RLt(contentResult.ROIPercentage, prev.worstROI)
         IN  [bestROI |-> IF isBest THEN contentResult.ROIPercentage ELSE prev.bestROI,
              worstROI |-> IF isWorst THEN contentResult.ROIPercentage ELSE prev.worstROI,
              best |-> IF isBest THEN contentResult ELSE prev.best,
              worst |-> IF isWorst THEN contentResult ELSE prev.worst]

\* AverageCostPerLead, AverageCostPerConversion: totalInvestment / float64(count)
\* under the guard totalInvestment > 0, the zero value otherwise.
PortfolioAverage(totalInvestment, count) ==
    IF RGt(totalInvestment, Zero)
    THEN RDiv(totalInvestment, FromInt(count))
    ELSE Zero

CalculateContentPortfolioROI(portfolioMetrics) ==
    LET n == Len(portfolioMetrics)
        contentResults == [k \in 1..n |-> CalculateContentROI(portfolioMetrics[k])]
        totalInvestment == RSum([k \in 1..n |-> contentResults[k].TotalInvestment])
        totalRevenue == RSum([k \in 1..n |-> contentResults[k].TotalRevenue])
        allLeads == IntSum([k \in 1..n |-> portfolioMetrics[k].Leads])
        allConversions == IntSum([k \in 1..n |-> Len(portfolioMetrics[k].DirectConversions)])
        portfolioROI ==
            IF RGt(totalInvestment, Zero)
            THEN RMul(RDiv(RSub(totalRevenue, totalInvestment), totalInvestment),
                      FromInt(100))
            ELSE Zero
        bestWorst == BestWorstUpTo(contentResults, n)
    IN  [ContentCount |-> n,
         TotalInvestment |-> totalInvestment,
         TotalRevenue |-> totalRevenue,
         TotalLeads |-> allLeads,
         TotalConversions |-> allConversions,
         PortfolioROI |-> portfolioROI,
         AverageROI |-> IF n > 0 THEN RDiv(portfolioROI, FromInt(n)) ELSE Zero,
         AverageCostPerLead |-> PortfolioAverage(totalInvestment, allLeads),
         AverageCostPerConversion |-> PortfolioAverage(totalInvestment, allConversions),
         BestPerformingContent |-> bestWorst.best,
         WorstPerformingContent |-> bestWorst.worst,
         ContentResults |-> contentResults]

(***************************************************************************)
(* SEOAnalyzer (src/pkg/seo/analyzer.go).  Strings are ASCII; the regular  *)
(* expressions of the analyzer are modelled by the languages they match.   *)
(***************************************************************************)
\* The characters the class \s matches, which strings.Fields splits on too.
Whitespace == {" ", "\t", "\n", "\r", "\f"}

IsSpace(c) == c \in Whitespace

LowerLetters == {Char(LowerChars, i) : i \in 1..26}

DigitChars == {"0", "1", "2", "3", "4", "5", "6", "7", "8", "9"}

SentenceEnders == {".", "!", "?"}

Min(S) == CHOOSE x \in S : \A y \in S : x <= y

Max(S) == CHOOSE x \in S : \A y \in S : x >= y

\* The 1-based positions at which sub occurs in s.
Occurrences(s, sub) == {i \in 1..(Len(s) - Len(sub) + 1) : HasPrefixAt(s, sub, i)}

\* The 0-based position of the last occurrence in place of the first.
LastOccurrence(s, sub) ==
    LET hits == Occurrences(s, sub) IN IF hits = {} THEN -1 ELSE Max(hits) - 1

\* strings.Index: the 0-based position of the first occurrence, or -1.
Index(s, sub) ==
    LET hits == Occurrences(s, sub) IN IF hits = {} THEN -1 ELSE Min(hits) - 1

\* strings.LastIndex.
LastIndex(s, sub) ==
    LET hits == Occurrences(s, sub) IN IF hits = {} THEN -1 ELSE Max(hits) - 1

\* The occurrences taken left to right, none overlapping the one before.
RECURSIVE CountNonOverlapping(_, _)
CountNonOverlapping(hits, width) ==
    IF hits = {} THEN 0
    ELSE LET first == Min(hits)
         IN  1 + CountNonOverlapping({i \in hits : i >= first + width}, width)

\* strings.Count.
Count(s, sub) ==
    IF sub = "" THEN Len(s) + 1 ELSE CountNonOverlapping(Occurrences(s, sub), Len(sub))

HasSuffix(s, suffix) ==
    Len(s) >= Len(suffix) /\ SubSeq(s, Len(s) - Len(suffix) + 1, Len(s)) = suffix

HasPrefix(s, prefix) == Len(s) >= Len(prefix) /\ SubSeq(s, 1, Len(prefix)) = prefix

\* strings.ReplaceAll(s, " ", "-"), halving the range.
RECURSIVE SlugRange(_, _, _)
SlugRange(s, lo, hi) ==
    IF lo > hi THEN ""
    ELSE IF lo = hi THEN (IF Char(s, lo) = " " THEN "-" ELSE Char(s, lo))
    ELSE LET mid == (lo + hi) \div 2
         IN  SlugRange(s, lo, mid) \o SlugRange(s, mid + 1, hi)

\* strings.TrimSpace.
TrimSpace(s) ==
    LET kept == {i \in 1..Len(s) : ~IsSpace(Char(s, i))}
    IN  IF kept = {} THEN "" ELSE SubSeq(s, Min(kept), Max(kept))

\* A word of strings.Fields, and of the pattern \S+, starts at position i.
IsWordStart(s, i) == ~IsSpace(Char(s, i)) /\ (i = 1 \/ IsSpace(Char(s, i - 1)))

WordStarts(s) == {i \in 1..Len(s) : IsWordStart(s, i)}

\* The last position of the word that holds position i.
RECURSIVE WordEnd(_, _)
WordEnd(s, i) == IF i >= Len(s) \/ IsSpace(Char(s, i + 1)) THEN i ELSE WordEnd(s, i + 1)

\* The first word start at or after position i (one exists).
RECURSIVE NextWordStart(_, _)
NextWordStart(s, i) == IF ~IsSpace(Char(s, i)) THEN i ELSE NextWordStart(s, i + 1)

RECURSIVE SumRange(_, _, _)
SumRange(f, lo, hi) ==
    IF lo > hi THEN 0
    ELSE IF lo = hi THEN f[lo]
    ELSE LET mid == (lo + hi) \div 2 IN SumRange(f, lo, mid) + SumRange(f, mid + 1, hi)

countWords(text) == Cardinality(WordStarts(text))

\* The pattern [.!?]+ splits the text at every run of enders; Split returns
\* one piece more than there are runs, the empty text one empty piece.
IsEnderRunStart(s, i) ==
    Char(s, i) \in SentenceEnders /\ (i = 1 \/ Char(s, i - 1) \notin SentenceEnders)

EnderRunStarts(s) == {i \in 1..Len(s) : IsEnderRunStart(s, i)}

countSentences(text) == (Cardinality(EnderRunStarts(text)) + 1) - 1

\* regexp [^a-z] replaced by "": the lower-case letters of the word.
RECURSIVE RemoveNonLower(_)
RemoveNonLower(word) ==
    IF word = "" THEN ""
    ELSE (IF Head(word) \in LowerLetters THEN Head(word) ELSE "") \o RemoveNonLower(Tail(word))

Vowels == {"a", "e", "i", "o", "u", "y"}

\* The loop of lines 639-645 from position i on.
RECURSIVE VowelGroups(_, _, _)
VowelGroups(word, i, prevWasVowel) ==
    IF i > Len(word) THEN 0
    ELSE LET isVowel == Char(word, i) \in Vowels
         IN  (IF isVowel /\ ~prevWasVowel THEN 1 ELSE 0) + VowelGroups(word, i + 1, isVowel)

\* The syllables one word of the text adds to the total.
WordSyllables(rawWord) ==
    LET word == ToLower(RemoveNonLower(rawWord))
        groups == VowelGroups(word, 1, FALSE)
        syllables == IF HasSuffix(word, "e") /\ groups > 1 THEN groups - 1 ELSE groups
    IN  IF word = "" THEN 0
        ELSE IF syllables = 0 THEN 1
        ELSE syllables

countSyllables(text) ==
    SumRange([i \in 1..Len(text) |->
                 IF IsWordStart(text, i)
                 THEN WordSyllables(SubSeq(text, i, WordEnd(text, i)))
                 ELSE 0],
             1, Len(text))

\* strings.Join(words[:n], " ") from the word that starts at position i.
RECURSIVE JoinWords(_, _, _)
JoinWords(s, i, n) ==
    LET last == WordEnd(s, i)
    IN  IF n <= 1 THEN SubSeq(s, i, last)
        ELSE SubSeq(s, i, last) \o " " \o JoinWords(s, NextWordStart(s, last + 1), n - 1)

getFirstNWords(text, n) ==
    IF countWords(text) <= n THEN text
    ELSE IF n <= 0 THEN ""
    ELSE JoinWords(text, NextWordStart(text, 1), n)

\* The words of list, in its order, that text contains.
Found(list, text) == SelectSeq(list, LAMBDA w : Contains(text, w))

LSICandidates ==
    << "search engine", "optimization", "ranking", "keywords", "google",
       "content marketing", "backlinks", "meta tags" >>

identifyLSIKeywords(content, primaryKeyword) ==
    IF Contains(ToLower(primaryKeyword), "seo")
    THEN Found(LSICandidates, ToLower(content))
    ELSE <<>>

PowerWordList ==
    << "ultimate", "complete", "guide", "best", "top", "how", "why", "what", "when",
       "expert", "proven", "essential", "amazing", "incredible", "powerful" >>

analyzeTitleSEO(title, primaryKeyword) ==
    LET length == Len(title)
        titleLower == ToLower(title)
        keywordLower == ToLower(primaryKeyword)
        contains == keywordLower # "" /\ Contains(titleLower, keywordLower)
        position == Index(titleLower, keywordLower)
        powerWords == Found(PowerWordList, titleLower)
    IN  [Title |-> title,
         Length |-> length,
         LengthScore |->
             IF length >= 50 /\ length <= 60 THEN 100
             ELSE IF length >= 40 /\ length < 70 THEN 80
             ELSE IF length < 40 THEN 60
             ELSE 40,
         LengthStatus |->
             IF length >= 50 /\ length <= 60 THEN "optimal"
             ELSE IF length >= 40 /\ length < 70 THEN "good"
             ELSE IF length < 40 THEN "too_short"
             ELSE "too_long",
         ContainsPrimaryKeyword |-> contains,
         KeywordPosition |->
             IF ~contains THEN ""
             ELSE IF position = 0 THEN "beginning"
             ELSE IF position <= length \div 2 THEN "middle"
             ELSE "end",
         KeywordScore |->
             IF keywordLower = "" THEN 50
             ELSE IF ~contains THEN 20
             ELSE IF position = 0 THEN 100
             ELSE IF position <= length \div 2 THEN 80
             ELSE 60,
         PowerWords |-> powerWords,
         PowerWordScore |-> RMin(FromInt(Len(powerWords) * 20), FromInt(100))]

CTAWords ==
    {"learn", "discover", "find out", "get", "download", "read", "explore", "try",
     "start", "join"}

analyzeMetaDescription(metaDescription, primaryKeyword) ==
    LET length == Len(metaDescription)
        metaLower == ToLower(metaDescription)
        contains == primaryKeyword # "" /\ Contains(metaLower, ToLower(primaryKeyword))
        callToAction == ContainsAny(metaLower, CTAWords)
    IN  [MetaDescription |-> metaDescription,
         Length |-> length,
         LengthScore |->
             IF length >= 150 /\ length <= 160 THEN 100
             ELSE IF length >= 120 /\ length <= 170 THEN 80
             ELSE IF length < 120 THEN 60
             ELSE 40,
         LengthStatus |->
             IF length >= 150 /\ length <= 160 THEN "optimal"
             ELSE IF length >= 120 /\ length <= 170 THEN "good"
             ELSE IF length < 120 THEN "too_short"
             ELSE "too_long",
         ContainsPrimaryKeyword |-> contains,
         KeywordScore |-> IF primaryKeyword = "" THEN 50 ELSE IF contains THEN 100 ELSE 20,
         CallToAction |-> callToAction,
         CTAScore |-> IF callToAction THEN 100 ELSE 30]

\* The headings of the given level.
LevelCount(headings, level) ==
    Cardinality({k \in DOMAIN headings : headings[k].Level = level})

analyzeContentStructure(content, headings) ==
    LET wordCount == countWords(content)
        h1Count == LevelCount(headings, 1)
        h2Count == LevelCount(headings, 2)
        h3Count == LevelCount(headings, 3)
        paragraphCount == Count(content, "\n\n") + 1
        avgWordsPerParagraph ==
            IF wordCount > 0 THEN RDiv(FromInt(wordCount), FromInt(paragraphCount)) ELSE Zero
    IN  [WordCount |-> wordCount,
         Headings |-> headings,
         WordCountScore |->
             IF wordCount >= 1000 /\ wordCount <= 3000 THEN 100
             ELSE IF wordCount >= 500 /\ wordCount < 4000 THEN 80
             ELSE IF wordCount < 500 THEN 50
             ELSE 70,
         WordCountStatus |->
             IF wordCount >= 1000 /\ wordCount <= 3000 THEN "optimal"
             ELSE IF wordCount >= 500 /\ wordCount < 4000 THEN "good"
             ELSE IF wordCount < 500 THEN "too_short"
             ELSE "very_long",
         H1Count |-> h1Count,
         H2Count |-> h2Count,
         H3Count |-> h3Count,
         H1Score |-> IF h1Count = 1 THEN 100 ELSE IF h1Count = 0 THEN 20 ELSE 60,
         H1Status |->
             IF h1Count = 1 THEN "optimal" ELSE IF h1Count = 0 THEN "missing" ELSE "multiple",
         H2Score |->
             IF h2Count >= 2 /\ h2Count <= 8 THEN 100
             ELSE IF h2Count = 1 THEN 70
             ELSE IF h2Count = 0 THEN 40
             ELSE 80,
         H2Status |->
             IF h2Count >= 2 /\ h2Count <= 8 THEN "good"
             ELSE IF h2Count = 1 THEN "minimal"
             ELSE IF h2Count = 0 THEN "missing"
             ELSE "many",
         AvgWordsPerParagraph |-> avgWordsPerParagraph,
         ParagraphScore |->
             IF RGe(avgWordsPerParagraph, FromInt(50)) /\ RLe(avgWordsPerParagraph, FromInt(100))
             THEN 100
             ELSE IF RGe(avgWordsPerParagraph, FromInt(30))
                     /\ RLe(avgWordsPerParagraph, FromInt(150))
             THEN 80
             ELSE 60]

\* The density in percent of count occurrences among wordCount words.
Density(count, wordCount) == RMul(RDiv(FromInt(count), FromInt(wordCount)), FromInt(100))

\* The entries appended for the secondary keywords from index k on.
RECURSIVE SecondaryData(_, _, _, _)
SecondaryData(keywords, k, contentLower, wordCount) ==
    IF k > Len(keywords) THEN <<>>
    ELSE IF keywords[k] = "" THEN SecondaryData(keywords, k + 1, contentLower, wordCount)
    ELSE LET count == Count(contentLower, ToLower(keywords[k]))
         IN  << [Keyword |-> keywords[k], Count |-> count,
                 Density |-> Density(count, wordCount)] >>
             \o SecondaryData(keywords, k + 1, contentLower, wordCount)

\* The KeywordAnalysis the early return of line 283 leaves.
EmptyKeywordAnalysis(content) ==
    [PrimaryKeyword |-> content.PrimaryKeyword,
     SecondaryKeywords |-> content.SecondaryKeywords,
     PrimaryKeywordCount |-> 0, PrimaryKeywordDensity |-> Zero,
     PrimaryKeywordScore |-> 0, PrimaryKeywordStatus |-> "",
     PrimaryKeywordInIntro |-> FALSE, IntroKeywordScore |-> 0,
     SecondaryKeywordData |-> <<>>, LSIKeywords |-> <<>>, LSIScore |-> Zero]

analyzeKeywordOptimization(content) ==
    LET contentText == content.Content
        wordCount == countWords(contentText)
        contentLower == ToLower(contentText)
        primaryKeywordLower == ToLower(content.PrimaryKeyword)
        count == Count(contentLower, primaryKeywordLower)
        density == Density(count, wordCount)
        inIntro == Contains(ToLower(getFirstNWords(contentText, 100)), primaryKeywordLower)
        withPrimary ==
            IF content.PrimaryKeyword = "" THEN EmptyKeywordAnalysis(content)
            ELSE [EmptyKeywordAnalysis(content) EXCEPT
                     !.PrimaryKeywordCount = count,
                     !.PrimaryKeywordDensity = density,
                     !.PrimaryKeywordScore =
                         IF RGe(density, FromInt(1)) /\ RLe(density, FromInt(2)) THEN 100
                         ELSE IF RGe(density, Rat(1, 2)) /\ RLt(density, FromInt(3)) THEN 80
                         ELSE IF RLt(density, Rat(1, 2)) THEN 50
                         ELSE 30,
                     !.PrimaryKeywordStatus =
                         IF RGe(density, FromInt(1)) /\ RLe(density, FromInt(2)) THEN "optimal"
                         ELSE IF RGe(density, Rat(1, 2)) /\ RLt(density, FromInt(3)) THEN "good"
                         ELSE IF RLt(density, Rat(1, 2)) THEN "too_low"
                         ELSE "too_high",
                     !.PrimaryKeywordInIntro = inIntro,
                     !.IntroKeywordScore = IF inIntro THEN 100 ELSE 40]
        lsiKeywords == identifyLSIKeywords(contentText, content.PrimaryKeyword)
    IN  IF wordCount = 0 THEN EmptyKeywordAnalysis(content)
        ELSE [withPrimary EXCEPT
                 !.SecondaryKeywordData =
                     SecondaryData(content.SecondaryKeywords, 1, contentLower, wordCount),
                 !.LSIKeywords = lsiKeywords,
                 !.LSIScore = RMin(FromInt(Len(lsiKeywords) * 10), FromInt(100))]

\* A word of a sentence starts at position i: the sentences are the pieces
\* between the runs of enders, their words what strings.Fields finds in them.
IsSentenceWordStart(s, i) ==
    /\ ~IsSpace(Char(s, i))
    /\ Char(s, i) \notin SentenceEnders
    /\ i = 1 \/ IsSpace(Char(s, i - 1)) \/ Char(s, i - 1) \in SentenceEnders

EmptySentenceLengthAnalysis ==
    [LongestSentence |-> 0, ShortestSentence |-> 0, AverageLength |-> Zero,
     ShortSentences |-> 0, MediumSentences |-> 0, LongSentences |-> 0]

\* The last run of enders that starts in lo..hi, or 0: the right half first.
RECURSIVE LastEnderRunStart(_, _, _)
LastEnderRunStart(s, lo, hi) ==
    IF lo > hi THEN 0
    ELSE IF lo = hi THEN (IF IsEnderRunStart(s, lo) THEN lo ELSE 0)
    ELSE LET mid == (lo + hi) \div 2
             right == LastEnderRunStart(s, mid + 1, hi)
         IN  IF right > 0 THEN right ELSE LastEnderRunStart(s, lo, mid)

\* The words of the piece that the run of enders starting at b closes (the
\* end of the text closes the last piece).
SentenceWords(content, b) ==
    LET from == LastEnderRunStart(content, 1, b - 1) + 1
    IN  Cardinality({i \in from..(b - 1) : IsSentenceWordStart(content, i)})

\* lengths holds, under the position that closes it, the word count of every
\* piece with words; their sum is the number of words in all the pieces.
analyzeSentenceLengths(content) ==
    LET breaks == EnderRunStarts(content)
        counted == {<<b, SentenceWords(content, b)>> :
                       b \in breaks \cup {Len(content) + 1}}
        lengths == {s \in counted : s[2] > 0}
        sum == Cardinality({i \in 1..Len(content) : IsSentenceWordStart(content, i)})
    IN  IF lengths = {} THEN EmptySentenceLengthAnalysis
        ELSE [LongestSentence |-> Max({s[2] : s \in lengths}),
              ShortestSentence |-> Min({s[2] : s \in lengths}),
              AverageLength |-> RDiv(FromInt(sum), FromInt(Cardinality(lengths))),
              ShortSentences |-> Cardinality({s \in lengths : s[2] <= 10}),
              MediumSentences |-> Cardinality({s \in lengths : s[2] > 10 /\ s[2] <= 20}),
              LongSentences |-> Cardinality({s \in lengths : s[2] > 20})]

TransitionWordList ==
    << "however", "therefore", "furthermore", "moreover", "additionally",
       "consequently", "meanwhile", "nevertheless", "similarly", "in contrast",
       "on the other hand", "in addition", "for example", "for instance" >>

\* The analysis with the averages of no words over no sentences divided out.
DividedReadabilityAnalysis ==
    [SentenceCount |-> 0, WordCount |-> 0, SyllableCount |-> 0,
     AvgWordsPerSentence |-> RDiv(Zero, Zero), AvgSyllablesPerWord |-> RDiv(Zero, Zero),
     FleschScore |-> RDiv(Zero, Zero), ReadingLevel |-> "", ReadabilityScore |-> 0,
     FleschKincaidGrade |-> RDiv(Zero, Zero),
     SentenceLengthAnalysis |-> EmptySentenceLengthAnalysis,
     TransitionWords |-> <<>>, TransitionWordScore |-> Zero]

EmptyReadabilityAnalysis ==
    [SentenceCount |-> 0, WordCount |-> 0, SyllableCount |-> 0,
     AvgWordsPerSentence |-> Zero, AvgSyllablesPerWord |-> Zero,
     FleschScore |-> Zero, ReadingLevel |-> "", ReadabilityScore |-> 0,
     FleschKincaidGrade |-> Zero,
     SentenceLengthAnalysis |-> EmptySentenceLengthAnalysis,
     TransitionWords |-> <<>>, TransitionWordScore |-> Zero]

\* Line 366: 206.835 - 1.015 * words per sentence - 84.6 * syllables per word.
RawFleschScore(avgWordsPerSentence, avgSyllablesPerWord) ==
    RSub(RSub(Rat(206835, 1000), RMul(Rat(1015, 1000), avgWordsPerSentence)),
         RMul(Rat(846, 10), avgSyllablesPerWord))

\* The clamp of line 367 left out.
UnclampedFlesch(fleschScore) == fleschScore

\* Line 367: math.Max(0, math.Min(100, fleschScore)).
ClampFlesch(fleschScore) == RMax(Zero, RMin(FromInt(100), fleschScore))

analyzeReadability(content) ==
    LET sentences == countSentences(content)
        words == countWords(content)
        syllables == countSyllables(content)
        avgWordsPerSentence == RDiv(FromInt(words), FromInt(sentences))
        avgSyllablesPerWord == RDiv(FromInt(syllables), FromInt(words))
        flesch == ClampFlesch(RawFleschScore(avgWordsPerSentence, avgSyllablesPerWord))
        transitionWords == Found(TransitionWordList, ToLower(content))
    IN  IF sentences = 0 \/ words = 0 THEN EmptyReadabilityAnalysis
        ELSE [SentenceCount |-> sentences,
              WordCount |-> words,
              SyllableCount |-> syllables,
              AvgWordsPerSentence |-> avgWordsPerSentence,
              AvgSyllablesPerWord |-> avgSyllablesPerWord,
              FleschScore |-> flesch,
              ReadingLevel |->
                  IF RGe(flesch, FromInt(90)) THEN "very_easy"
                  ELSE IF RGe(flesch, FromInt(80)) THEN "easy"
                  ELSE IF RGe(flesch, FromInt(70)) THEN "fairly_easy"
                  ELSE IF RGe(flesch, FromInt(60)) THEN "standard"
                  ELSE IF RGe(flesch, FromInt(50)) THEN "fairly_difficult"
                  ELSE IF RGe(flesch, FromInt(30)) THEN "difficult"
                  ELSE "very_difficult",
              ReadabilityScore |->
                  IF RGe(flesch, FromInt(90)) THEN 100
                  ELSE IF RGe(flesch, FromInt(80)) THEN 90
                  ELSE IF RGe(flesch, FromInt(70)) THEN 80
                  ELSE IF RGe(flesch, FromInt(60)) THEN 70
                  ELSE IF RGe(flesch, FromInt(50)) THEN 60
                  ELSE IF RGe(flesch, FromInt(30)) THEN 40
                  ELSE 20,
              FleschKincaidGrade |->
                  RSub(RAdd(RMul(Rat(39, 100), avgWordsPerSentence),
                            RMul(Rat(118, 10), avgSyllablesPerWord)),
                       Rat(1559, 100)),
              SentenceLengthAnalysis |-> analyzeSentenceLengths(content),
              TransitionWords |-> transitionWords,
              TransitionWordScore |-> RMin(FromInt(Len(transitionWords) * 15), FromInt(100))]

SlugChars == LowerLetters \cup DigitChars \cup {"-"}

\* The pattern ^https?://[^/]+/[a-z0-9-]+/?$ matches url.
IsCleanURL(url) ==
    LET scheme == IF HasPrefix(url, "https://") THEN 8
                  ELSE IF HasPrefix(url, "http://") THEN 7
                  ELSE 0
        rest == SubSeq(url, scheme + 1, Len(url))
        slash == Index(rest, "/")
        path == SubSeq(rest, slash + 2, Len(rest))
        slug == IF HasSuffix(path, "/") THEN SubSeq(path, 1, Len(path) - 1) ELSE path
    IN  /\ scheme > 0
        /\ slash >= 1
        /\ slug # ""
        /\ \A k \in 1..Len(slug) : Char(slug, k) \in SlugChars

analyzeURL(url, primaryKeyword) ==
    LET length == Len(url)
        urlLower == ToLower(url)
        keywordLower == ToLower(primaryKeyword)
        keywordSlug == SlugRange(keywordLower, 1, Len(keywordLower))
        containsKeyword ==
            /\ primaryKeyword # ""
            /\ Contains(urlLower, keywordSlug) \/ Contains(urlLower, keywordLower)
        clean == IsCleanURL(urlLower)
    IN  [URL |-> url,
         Length |-> length,
         LengthScore |-> IF length <= 75 THEN 100 ELSE IF length <= 100 THEN 80 ELSE 60,
         LengthStatus |->
             IF length <= 75 THEN "optimal" ELSE IF length <= 100 THEN "good" ELSE "too_long",
         ContainsKeyword |-> containsKeyword,
         KeywordScore |->
             IF primaryKeyword = "" THEN 0 ELSE IF containsKeyword THEN 100 ELSE 30,
         StructureScore |-> IF clean THEN 100 ELSE 70,
         Structure |-> IF clean THEN "clean" ELSE "complex"]

analyzeTechnicalSEO(content) ==
    LET loadTime == content.LoadTime
        measured == RGt(loadTime, Zero)
    IN  [URLAnalysis |-> analyzeURL(content.URL, content.PrimaryKeyword),
         HasSchemaMarkup |-> content.SchemaMarkup # "",
         SchemaScore |-> IF content.SchemaMarkup # "" THEN 100 ELSE 0,
         HasCanonicalURL |-> content.CanonicalURL # "",
         CanonicalScore |-> IF content.CanonicalURL # "" THEN 100 ELSE 50,
         LoadTimeScore |->
             IF ~measured THEN 50
             ELSE IF RLe(loadTime, FromInt(2)) THEN 100
             ELSE IF RLe(loadTime, FromInt(3)) THEN 80
             ELSE IF RLe(loadTime, FromInt(5)) THEN 60
             ELSE 30,
         LoadTimeStatus |->
             IF ~measured THEN ""
             ELSE IF RLe(loadTime, FromInt(2)) THEN "excellent"
             ELSE IF RLe(loadTime, FromInt(3)) THEN "good"
             ELSE IF RLe(loadTime, FromInt(5)) THEN "fair"
             ELSE "poor",
         IsMobileResponsive |-> content.MobileResponsive,
         MobileScore |-> IF content.MobileResponsive THEN 100 ELSE 0]

\* The key under which a link's anchor text is counted.
AnchorKey(link) == ToLower(TrimSpace(link.AnchorText))

\* The keys of the map anchorTexts, and the count the map holds for a key.
AnchorKeys(links) == {AnchorKey(links[k]) : k \in DOMAIN links} \ {""}

AnchorCount(links, anchorText) ==
    Cardinality({k \in DOMAIN links : AnchorKey(links[k]) = anchorText})

\* The orders in which a range over a map of these keys can visit them.
RECURSIVE MapOrders(_)
MapOrders(keys) ==
    IF keys = {} THEN {<<>>}
    ELSE UNION {{<<k>> \o rest : rest \in MapOrders(keys \ {k})} : k \in keys}

EmptyAnchorTextAnalysis ==
    [MostUsedAnchorText |-> "", OverOptimizedAnchors |-> <<>>, AnchorTextVariety |-> 0,
     MaxAnchorFrequency |-> 0, DiversityScore |-> Zero]

\* order is the order in which the range of line 800 visits the map.
analyzeAnchorTexts(links, order) ==
    LET totalLinks == Len(links)
        frequency(anchorText) == (AnchorCount(links, anchorText) * 100) \div totalLinks
        maxFrequency == Max({0} \cup {frequency(order[k]) : k \in DOMAIN order})
        variety == Cardinality(AnchorKeys(links))
    IN  IF totalLinks = 0 THEN EmptyAnchorTextAnalysis
        ELSE [MostUsedAnchorText |->
                  IF maxFrequency = 0 THEN ""
                  ELSE order[Min({k \in DOMAIN order : frequency(order[k]) = maxFrequency})],
              OverOptimizedAnchors |-> SelectSeq(order, LAMBDA a : frequency(a) > 30),
              AnchorTextVariety |-> variety,
              MaxAnchorFrequency |-> maxFrequency,
              DiversityScore |->
                  RMin(RMul(RDiv(FromInt(variety), FromInt(totalLinks)), FromInt(100)),
                       FromInt(100))]

analyzeLinkStructure(internalLinks, externalLinks, order) ==
    LET internal == Len(internalLinks)
        external == Len(externalLinks)
    IN  [InternalLinks |-> internalLinks,
         ExternalLinks |-> externalLinks,
         InternalLinkCount |-> internal,
         ExternalLinkCount |-> external,
         InternalLinkScore |->
             IF internal >= 3 /\ internal <= 10 THEN 100
             ELSE IF internal >= 1 /\ internal <= 15 THEN 80
             ELSE IF internal = 0 THEN 20
             ELSE 60,
         InternalLinkStatus |->
             IF internal >= 3 /\ internal <= 10 THEN "optimal"
             ELSE IF internal >= 1 /\ internal <= 15 THEN "good"
             ELSE IF internal = 0 THEN "missing"
             ELSE "too_many",
         ExternalLinkScore |->
             IF external >= 2 /\ external <= 5 THEN 100
             ELSE IF external >= 1 /\ external <= 8 THEN 80
             ELSE IF external = 0 THEN 40
             ELSE 60,
         ExternalLinkStatus |->
             IF external >= 2 /\ external <= 5 THEN "optimal"
             ELSE IF external >= 1 /\ external <= 8 THEN "good"
             ELSE IF external = 0 THEN "none"
             ELSE "too_many",
         AnchorTextAnalysis |-> analyzeAnchorTexts(internalLinks \o externalLinks, order)]

GenericImageNames == {"img", "image", "picture", "photo"}

\* The pattern ^(img|image|picture|photo)\d*$ matches name.
IsGenericImageName(name) ==
    \E g \in GenericImageNames :
        /\ HasPrefix(name, g)
        /\ \A k \in (Len(g) + 1)..Len(name) : Char(name, k) \in DigitChars

isOptimizedFileName(fileName) ==
    LET lower == ToLower(fileName)
        dotIndex == LastIndex(lower, ".")
        name == IF dotIndex > 0 THEN SubSeq(lower, 1, dotIndex) ELSE lower
    IN  /\ ~IsGenericImageName(name)
        /\ ~(Contains(name, "_") \/ Contains(name, " "))
        /\ ~(Len(name) < 3 \/ ~\E k \in 1..Len(name) : Char(name, k) \in LowerLetters)

\* The share in percent of the images that satisfy Has.
ImagePercentage(images, Has(_)) ==
    RMul(RDiv(FromInt(Cardinality({k \in DOMAIN images : Has(images[k])})),
              FromInt(Len(images))),
         FromInt(100))

analyzeImageOptimization(images) ==
    LET hasAlt(image) == image.AltText # ""
        hasTitle(image) == image.Title # ""
        hasName(image) == isOptimizedFileName(image.FileName)
        altTextScore == ImagePercentage(images, hasAlt)
        titleScore == ImagePercentage(images, hasTitle)
        fileNameScore == ImagePercentage(images, hasName)
    IN  IF Len(images) = 0
        THEN [Images |-> images, ImageCount |-> 0, ImagesWithAltText |-> 0,
              ImagesWithTitle |-> 0, OptimizedFileNames |-> 0, AltTextScore |-> Zero,
              TitleScore |-> Zero, FileNameScore |-> Zero, ImageScore |-> FromInt(50)]
        ELSE [Images |-> images,
              ImageCount |-> Len(images),
              ImagesWithAltText |-> Cardinality({k \in DOMAIN images : hasAlt(images[k])}),
              ImagesWithTitle |-> Cardinality({k \in DOMAIN images : hasTitle(images[k])}),
              OptimizedFileNames |-> Cardinality({k \in DOMAIN images : hasName(images[k])}),
              AltTextScore |-> altTextScore,
              TitleScore |-> titleScore,
              FileNameScore |-> fileNameScore,
              ImageScore |->
                  RAdd(RAdd(RMul(altTextScore, Rat(5, 10)), RMul(titleScore, Rat(2, 10))),
                       RMul(fileNameScore, Rat(3, 10)))]

\* The mean of integer scores, as a float64.
Mean(scores) ==
    RDiv(RSum([k \in DOMAIN scores |-> FromInt(scores[k])]), FromInt(Len(scores)))

calculateOverallSEOScore(analysis) ==
    LET parts ==
            << <<Mean(<<analysis.TitleAnalysis.LengthScore,
                        analysis.TitleAnalysis.KeywordScore>>), Rat(15, 100)>>,
               <<Mean(<<analysis.MetaAnalysis.LengthScore,
                        analysis.MetaAnalysis.KeywordScore>>), Rat(10, 100)>>,
               <<Mean(<<analysis.StructureAnalysis.WordCountScore,
                        analysis.StructureAnalysis.H1Score,
                        analysis.StructureAnalysis.H2Score>>), Rat(20, 100)>>,
               <<FromInt(analysis.KeywordAnalysis.PrimaryKeywordScore), Rat(20, 100)>>,
               <<FromInt(analysis.ReadabilityAnalysis.ReadabilityScore), Rat(15, 100)>>,
               <<Mean(<<analysis.TechnicalAnalysis.SchemaScore,
                        analysis.TechnicalAnalysis.CanonicalScore,
                        analysis.TechnicalAnalysis.LoadTimeScore>>), Rat(10, 100)>>,
               <<Mean(<<analysis.LinkAnalysis.InternalLinkScore,
                        analysis.LinkAnalysis.ExternalLinkScore>>), Rat(5, 100)>>,
               <<analysis.ImageAnalysis.ImageScore, Rat(5, 100)>> >>
        totalScore == RSum([k \in DOMAIN parts |-> RMul(parts[k][1], parts[k][2])])
        weights == RSum([k \in DOMAIN parts |-> parts[k][2]])
    IN  IF RGt(weights, Zero) THEN RInt(RMin(RDiv(totalScore, weights), FromInt(100))) ELSE 0

\* append(list, item) under a condition.
When(condition, item) == IF condition THEN <<item>> ELSE <<>>

generateRecommendations(analysis) ==
    When(analysis.TitleAnalysis.LengthStatus = "too_short",
         "Expand your title to 50-60 characters for optimal search engine display")
    \o When(analysis.TitleAnalysis.LengthStatus = "too_long",
            "Shorten your title to under 60 characters to avoid truncation in search results")
    \o When(~analysis.TitleAnalysis.ContainsPrimaryKeyword,
            "Include your primary keyword in the title, preferably near the beginning")
    \o When(analysis.MetaAnalysis.LengthStatus = "too_short",
            "Expand your meta description to 150-160 characters for better search result display")
    \o When(analysis.MetaAnalysis.LengthStatus = "too_long",
            "Shorten your meta description to under 160 characters")
    \o When(~analysis.MetaAnalysis.CallToAction,
            "Add a compelling call-to-action to your meta description")
    \o When(analysis.StructureAnalysis.H1Status = "missing",
            "Add an H1 heading to your content for better structure")
    \o When(analysis.StructureAnalysis.H1Status = "multiple",
            "Use only one H1 heading per page")
    \o When(analysis.StructureAnalysis.H2Status = "missing",
            "Add H2 subheadings to improve content structure and readability")
    \o When(analysis.KeywordAnalysis.PrimaryKeywordStatus = "too_low",
            "Increase primary keyword usage to 1-2% density")
    \o When(analysis.KeywordAnalysis.PrimaryKeywordStatus = "too_high",
            "Reduce primary keyword usage to avoid over-optimization (aim for 1-2% density)")
    \o When(RLt(analysis.ReadabilityAnalysis.FleschScore, FromInt(60)),
            "Improve readability by using shorter sentences and simpler words")
    \o When(~analysis.TechnicalAnalysis.HasSchemaMarkup,
            "Add schema markup to help search engines understand your content better")
    \o When(analysis.LinkAnalysis.InternalLinkStatus = "missing",
            "Add 3-5 internal links to related content on your website")
    \o When(analysis.LinkAnalysis.ExternalLinkStatus = "none",
            "Include 2-3 links to high-quality external sources for credibility")
    \o When(RLt(analysis.ImageAnalysis.AltTextScore, FromInt(80)),
            "Add descriptive alt text to all images for better accessibility and SEO")

identifyOpportunities(analysis) ==
    When(~analysis.TitleAnalysis.ContainsPrimaryKeyword,
         [Type |-> "title_optimization", Priority |-> "high", Impact |-> "high",
          Effort |-> "low", Title |-> "Add primary keyword to title",
          Description |->
              "Including your primary keyword in the title can significantly improve rankings",
          Action |->
              "Edit the title to include your primary keyword, preferably at the beginning"])
    \o When(RLt(analysis.KeywordAnalysis.PrimaryKeywordDensity, Rat(1, 2)),
         [Type |-> "keyword_optimization", Priority |-> "high", Impact |-> "medium",
          Effort |-> "medium", Title |-> "Increase keyword density",
          Description |->
              "Your primary keyword density is too low, which may affect rankings",
          Action |->
              "Naturally incorporate your primary keyword 2-3 more times in the content"])
    \o When(analysis.StructureAnalysis.H2Count < 2,
         [Type |-> "content_structure", Priority |-> "medium", Impact |-> "medium",
          Effort |-> "low", Title |-> "Add more H2 subheadings",
          Description |->
              "Proper heading structure improves both SEO and user experience",
          Action |->
              "Break your content into logical sections with descriptive H2 headings"])
    \o When(Len(analysis.LinkAnalysis.InternalLinks) < 3,
         [Type |-> "internal_linking", Priority |-> "medium", Impact |-> "medium",
          Effort |-> "low", Title |-> "Add internal links",
          Description |->
              "Internal links help search engines understand your site structure and keep users engaged",
          Action |-> "Link to 3-5 related articles or pages on your website"])
    \o When(RLt(analysis.ImageAnalysis.AltTextScore, FromInt(100)),
         [Type |-> "image_optimization", Priority |-> "low", Impact |-> "low",
          Effort |-> "low", Title |-> "Optimize image alt text",
          Description |->
              "Alt text helps search engines understand your images and improves accessibility",
          Action |->
              "Add descriptive alt text to all images, including relevant keywords where appropriate"])
    \o When(~analysis.TechnicalAnalysis.HasSchemaMarkup,
         [Type |-> "schema_markup", Priority |-> "low", Impact |-> "medium",
          Effort |-> "high", Title |-> "Add schema markup",
          Description |->
              "Schema markup helps search engines better understand and display your content",
          Action |->
              "Implement appropriate schema markup (Article, BlogPosting, etc.) for your content type"])

\* The SEOAnalysis a call returns when it reads the clock at analyzedAt and
\* the range over the anchor-text map runs in the order `order`.
AnalyzeContent(content, analyzedAt, order) ==
    LET scored ==
            [ContentID |-> content.ID,
             Title |-> content.Title,
             URL |-> content.URL,
             AnalyzedAt |-> analyzedAt,
             TitleAnalysis |-> analyzeTitleSEO(content.Title, content.PrimaryKeyword),
             MetaAnalysis |->
                 analyzeMetaDescription(content.MetaDescription, content.PrimaryKeyword),
             StructureAnalysis |->
                 analyzeContentStructure(content.Content, content.Headings),
             KeywordAnalysis |-> analyzeKeywordOptimization(content),
             ReadabilityAnalysis |-> analyzeReadability(content.Content),
             TechnicalAnalysis |-> analyzeTechnicalSEO(content),
             LinkAnalysis |->
                 analyzeLinkStructure(content.InternalLinks, content.ExternalLinks, order),
             ImageAnalysis |-> analyzeImageOptimization(content.Images),
             OverallScore |-> 0,
             Recommendations |-> <<>>,
             Opportunities |-> <<>>]
        analysis == [scored EXCEPT !.OverallScore = calculateOverallSEOScore(scored)]
    IN  [analysis EXCEPT !.Recommendations = generateRecommendations(analysis),
                         !.Opportunities = identifyOpportunities(analysis)]

(***************************************************************************)
(* State.                                                                  *)
(***************************************************************************)
VARIABLES
    now,         \* the wall clock, hours since the zero time
    profile,     \* the LeadProfile the caller scores
    leadCalls,   \* CalculateLeadScore calls made on profile: [at, score]
    qualCalls,   \* AutoQualifyLead calls made: [score, profile, tier]
    given,       \* the series as the caller built it
    series,      \* the caller's slice, which every AnalyzeTrends call is handed
    trendCalls,  \* the TrendAnalysis of each AnalyzeTrends call that returned
    procs,       \* the goroutines inside AnalyzeTrends: [pc, i, j, tmp, result]
    metrics,     \* the ContentROIMetrics the caller has built
    roiCalls,    \* the ContentROIResult of each CalculateContentROI call
    portfolio,   \* the []ContentROIMetrics the caller has built
    portfolioCalls, \* the PortfolioROIResult of each CalculateContentPortfolioROI call
    content,     \* the ContentData the caller has built
    seoCalls     \* the SEOAnalysis of each AnalyzeContent call

leadVars == <<profile, leadCalls, qualCalls>>

trendVars == <<given, series, trendCalls, procs>>

roiVars == <<metrics, roiCalls, portfolio, portfolioCalls>>

seoVars == <<content, seoCalls>>

vars == <<now, leadVars, trendVars, roiVars, seoVars>>

(***************************************************************************)
(* Inputs of the lead scorer.                                              *)
(***************************************************************************)
LowProfile ==
    [Demographics |-> [JobTitle |-> "", Industry |-> "", Location |-> "",
                       ExperienceLevel |-> ""],
     Behavior |-> [PageViews |-> 0, TotalTimeOnSite |-> 0, VisitCount |-> 0,
                   BlogPostsRead |-> 0, Downloads |-> 0, VideoWatchTime |-> 0,
                   SocialEngagements |-> 0, ServicePagesVisited |-> FALSE,
                   PricingPagesVisited |-> FALSE, ContactPagesVisited |-> FALSE,
                   SearchQueries |-> 0, LastActivity |-> ZeroTime],
     Company |-> [Name |-> "", Size |-> "", Industry |-> "", Revenue |-> "",
                  TechnologyStack |-> <<>>],
     Intent |-> [SourceType |-> "", ContentTypes |-> <<>>, CTAInteractions |-> 0,
                 FormCompletions |-> 0]]

HighProfile ==
    [Demographics |-> [JobTitle |-> "CEO", Industry |-> "SaaS",
                       Location |-> "Pune, India", ExperienceLevel |-> "Senior"],
     Behavior |-> [PageViews |-> 10, TotalTimeOnSite |-> 1800, VisitCount |-> 5,
                   BlogPostsRead |-> 5, Downloads |-> 7, VideoWatchTime |-> 600,
                   SocialEngagements |-> 20, ServicePagesVisited |-> TRUE,
                   PricingPagesVisited |-> TRUE, ContactPagesVisited |-> TRUE,
                   SearchQueries |-> 20, LastActivity |-> NowStart],
     Company |-> [Name |-> "Acme", Size |-> "Enterprise", Industry |-> "Software",
                  Revenue |-> "100M+",
                  TechnologyStack |-> <<"React", "Go", "AWS", "Docker", "Python">>],
     Intent |-> [SourceType |-> "contact_form", ContentTypes |-> <<"case_study">>,
                 CTAInteractions |-> 5, FormCompletions |-> 3]]

BaseProfiles == {LowProfile, HighProfile}

CounterValues == {-BigCount, -1, 0, 1, 2, 3, 5, 10, 60, 300, 600, 900, 1800, BigCount}

LastActivities ==
    {ZeroTime, NowStart + HoursPerDay}
        \cup {NowStart - d * HoursPerDay : d \in {0, 1, 7, 30, 90}}

\* Each base profile with one field changed.
Profiles ==
    BaseProfiles
    \cup {[b EXCEPT !.Demographics.JobTitle = v] : b \in BaseProfiles,
             v \in {"Senior Manager", "Software Engineer", "Intern", "VP Sales"}}
    \cup {[b EXCEPT !.Demographics.Industry = v] : b \in BaseProfiles,
             v \in {"Healthcare", "Mining", "FinTech"}}
    \cup {[b EXCEPT !.Demographics.Location = v] : b \in BaseProfiles,
             v \in {"Lima, Peru", "USA"}}
    \cup {[b EXCEPT !.Demographics.ExperienceLevel = v] : b \in BaseProfiles,
             v \in {"Mid-level", "Junior", "Expert"}}
    \cup {[b EXCEPT !.Behavior.PageViews = v] : b \in BaseProfiles, v \in CounterValues}
    \cup {[b EXCEPT !.Behavior.TotalTimeOnSite = v] : b \in BaseProfiles, v \in CounterValues}
    \cup {[b EXCEPT !.Behavior.VisitCount = v] : b \in BaseProfiles, v \in CounterValues}
    \cup {[b EXCEPT !.Behavior.BlogPostsRead = v] : b \in BaseProfiles, v \in CounterValues}
    \cup {[b EXCEPT !.Behavior.Downloads = v] : b \in BaseProfiles, v \in CounterValues}
    \cup {[b EXCEPT !.Behavior.VideoWatchTime = v] : b \in BaseProfiles, v \in CounterValues}
    \cup {[b EXCEPT !.Behavior.SocialEngagements = v] : b \in BaseProfiles, v \in CounterValues}
    \cup {[b EXCEPT !.Behavior.SearchQueries = v] : b \in BaseProfiles, v \in CounterValues}
    \cup {[b EXCEPT !.Behavior.ServicePagesVisited = v, !.Behavior.PricingPagesVisited = w,
                    !.Behavior.ContactPagesVisited = x] :
             b \in BaseProfiles, v \in BOOLEAN, w \in BOOLEAN, x \in BOOLEAN}
    \cup {[b EXCEPT !.Behavior.LastActivity = v] : b \in BaseProfiles, v \in LastActivities}
    \cup {[b EXCEPT !.Company.Name = v] : b \in BaseProfiles, v \in {"", "Acme"}}
    \cup {[b EXCEPT !.Company.Name = "Acme", !.Company.Size = v] : b \in BaseProfiles,
             v \in {"Medium", "Small", "Tiny"}}
    \cup {[b EXCEPT !.Company.Name = "Acme", !.Company.Industry = v] : b \in BaseProfiles,
             v \in {"Retail", "Mining"}}
    \cup {[b EXCEPT !.Company.Name = "Acme", !.Company.Revenue = v] : b \in BaseProfiles,
             v \in {"50M", "5M", "500K", "1 Billion", "unknown"}}
    \cup {[b EXCEPT !.Company.Name = "Acme", !.Company.TechnologyStack = v] :
             b \in BaseProfiles,
             v \in {<<>>, <<"COBOL">>, <<"React", "COBOL">>,
                    <<"React", "Node", "Python", "Go", "AWS", "Azure">>}}
    \cup {[b EXCEPT !.Intent.SourceType = v] : b \in BaseProfiles,
             v \in {"Download", "newsletter", "cta", "social_share", "organic"}}
    \cup {[b EXCEPT !.Intent.ContentTypes = v] : b \in BaseProfiles,
             v \in {<<>>, <<"blog", "whitepaper", "webinar">>, <<"tutorial", "other">>,
                    <<"Case_Study", "case_study">>}}
    \cup {[b EXCEPT !.Intent.CTAInteractions = v] : b \in BaseProfiles, v \in CounterValues}
    \cup {[b EXCEPT !.Intent.FormCompletions = v] : b \in BaseProfiles, v \in CounterValues}

\* The scores handed to AutoQualifyLead: the thresholds and their neighbours.
ScoreInputs == {-BigCount, -1, 0, 39, 40, 41, 59, 60, 61, 79, 80, 81, 100, 101, BigCount}

(***************************************************************************)
(* SpecLead: a caller scores one profile several times while time passes.  *)
(***************************************************************************)
\* The wall clock advances by a day.
Tick ==
    /\ now < NowStart + MaxTicks * HoursPerDay
    /\ now' = now + HoursPerDay
    /\ UNCHANGED <<leadVars, trendVars, roiVars, seoVars>>

\* score := CalculateLeadScore(profile)
ScoreLead ==
    /\ Len(leadCalls) < MaxCalls
    /\ leadCalls' = Append(leadCalls,
                           [at |-> now, score |-> CalculateLeadScore(profile, now)])
    /\ UNCHANGED <<now, profile, qualCalls, trendVars, roiVars, seoVars>>

\* The calculators a specification does not exercise are left idle.
LeadIdle == profile = LowProfile /\ leadCalls = <<>> /\ qualCalls = <<>>

TrendIdle == given = <<>> /\ series = <<>> /\ trendCalls = <<>> /\ procs = <<>>

ROIIdle == metrics = <<>> /\ roiCalls = <<>> /\ portfolio = <<>> /\ portfolioCalls = <<>>

SEOIdle == content = <<>> /\ seoCalls = <<>>

LeadInit ==
    /\ now = NowStart
    /\ profile \in Profiles
    /\ leadCalls = <<>>
    /\ qualCalls = <<>>
    /\ TrendIdle
    /\ ROIIdle
    /\ SEOIdle

LeadNext == Tick \/ ScoreLead

SpecLead == LeadInit /\ [][LeadNext]_vars

(***************************************************************************)
(* SpecQualify: a caller qualifies scores, each with some profile.         *)
(***************************************************************************)
\* tier := AutoQualifyLead(s, p)
QualifyLead ==
    /\ Len(qualCalls) < MaxCalls
    /\ \E s \in ScoreInputs, p \in BaseProfiles :
          qualCalls' = Append(qualCalls,
                              [score |-> s, profile |-> p, tier |-> AutoQualifyLead(s, p)])
    /\ UNCHANGED <<now, profile, leadCalls, trendVars, roiVars, seoVars>>

QualifyInit ==
    /\ now = NowStart
    /\ LeadIdle
    /\ TrendIdle
    /\ ROIIdle
    /\ SEOIdle

QualifyNext == QualifyLead

SpecQualify == QualifyInit /\ [][QualifyNext]_vars

(***************************************************************************)
(* Inputs of the trend analyzer.                                           *)
(***************************************************************************)
MaxPoints == 3       \* longest series of arbitrary points
MaxSpikeLen == 16    \* longest flat series with one spike
MaxProcs == 2        \* concurrent AnalyzeTrends calls
MaxRampLen == 5      \* longest rising series

FirstDay == 240      \* Date (hours) of the earliest point

Point(day, value) == [Date |-> FirstDay + day * HoursPerDay, Value |-> value]

\* Few points, in any order, dates and values repeated or not.
SmallPoints == {Point(d, FromInt(v)) : d \in 0..2, v \in {0, 1, 3}}

SmallSeries == UNION {[1..n -> SmallPoints] : n \in 0..MaxPoints}

\* n points on consecutive days, flat at v but for 10 * v at the 0-based index k.
FlatSpike(n, v, k) ==
    [i \in 1..n |-> Point(i - 1, IF i - 1 = k THEN RMul(FromInt(10), v) ELSE v)]

SpikeBases == {Rat(1, 8), FromInt(1), FromInt(3)}

SpikeSeries ==
    UNION {{FlatSpike(n, v, k) : v \in SpikeBases, k \in 0..(n - 1)} : n \in 15..MaxSpikeLen}

\* n points on consecutive days rising by `step` a day from `start`.
Ramp(n, start, step) ==
    [i \in 1..n |-> Point(i - 1, RAdd(start, RMul(FromInt(i - 1), step)))]

\* n points on consecutive days rising faster every day: scale * 1, 4, 9, ...
Curve(n, scale) == [i \in 1..n |-> Point(i - 1, RMul(scale, FromInt(i * i)))]

\* Daily rises below, at and above the 0.01 and 0.1 that part the directions.
SmallSteps == {Rat(1, 128), Rat(1, 100), Rat(1, 64), Rat(1, 10), Rat(1, 8)}

RisingSeries ==
    {Ramp(n, start, FromInt(step)) : n \in 2..MaxRampLen, start \in {FromInt(-5), Zero, FromInt(1)},
                                     step \in {1, 3}}
    \cup {Ramp(n, Zero, step) : n \in 2..MaxRampLen, step \in SmallSteps}
    \cup {Curve(n, FromInt(1)) : n \in 3..MaxRampLen}
    \cup {Curve(3, Rat(1, 512))}

\* Points on consecutive days carrying the values of a sequence of ints.
Daily(values) == [i \in 1..Len(values) |-> Point(i - 1, FromInt(values[i]))]

\* Series whose windows vary: a spike, a dip or neither next to one low
\* value, and five points with a flat or a sloping window.
JitterSeries ==
    {Daily(<<4, 4, 4, 4, 4, 2, 4, v, 4, 4, 4, 4, 4, 4, 4>>) : v \in {16, 8, 4, 2}}
    \cup {Daily(<<1, 1, v, 1, 1>>) : v \in {1, 2, 3, 4, 5}}
    \cup {Daily(<<1, 2, 9, 3, 1>>), Daily(<<1, 2, 4, 3, 1>>)}
    \cup {Daily([k \in 1..n |-> 1 + (k % 2)]) : n \in {4, 6, 7, 8, 14}}

TrendInputs == SmallSeries \cup SpikeSeries \cup RisingSeries \cup JitterSeries

\* The shared series of the concurrent calls.
SharedInputs ==
    { <<Point(0, FromInt(1))>>,
      <<Point(0, FromInt(1)), Point(1, FromInt(3))>>,
      <<Point(1, FromInt(3)), Point(0, FromInt(1))>>,
      <<Point(2, FromInt(0)), Point(1, FromInt(3)), Point(0, FromInt(1))>> }

(***************************************************************************)
(* SpecTrend: a caller analyses its series, one call after the other.      *)
(***************************************************************************)
\* analysis := AnalyzeTrends(series), sort.Slice working on the caller's array.
AnalyzeTrendsCall ==
    /\ Len(trendCalls) < MaxCalls
    /\ trendCalls' = Append(trendCalls, AnalyzeTrends(series))
    /\ series' = IF Len(series) < 2 THEN series ELSE SortByDate(series)
    /\ UNCHANGED <<now, leadVars, given, procs, roiVars, seoVars>>

TrendInit ==
    /\ now = NowStart
    /\ LeadIdle
    /\ given \in TrendInputs
    /\ series = given
    /\ trendCalls = <<>>
    /\ procs = <<>>
    /\ ROIIdle
    /\ SEOIdle

TrendNext == AnalyzeTrendsCall

SpecTrend == TrendInit /\ [][TrendNext]_vars

(***************************************************************************)
(* SpecTrendConc: MaxProcs goroutines call AnalyzeTrends on the same       *)
(* slice.  sort.Slice is the insertion sort it runs on up to 12 elements,  *)
(* one comparison or one half of a swap (tmp = data[j]; data[j] =          *)
(* data[j-1], then data[j-1] = tmp) per step; i and j are 0-based.         *)
(***************************************************************************)
Procs == 1..MaxProcs

IdleProc == [pc |-> "call", i |-> 0, j |-> 0, tmp |-> <<>>, result |-> <<>>]

\* if len(data) < 2 { return insufficient_data }, else sort.Slice starts.
Call(p) ==
    /\ procs[p].pc = "call"
    /\ procs' = [procs EXCEPT ![p] =
                    IF Len(series) < 2
                    THEN [@ EXCEPT !.pc = "done", !.result = AnalyzeTrends(series)]
                    ELSE [@ EXCEPT !.pc = "sort", !.i = 1, !.j = 1]]
    /\ UNCHANGED <<now, leadVars, given, series, trendCalls, roiVars, seoVars>>

\* j > a && less(data[j], data[j-1]): swap next, or the outer loop goes on.
SortCompare(p) ==
    LET q == procs[p]
    IN  /\ q.pc = "sort"
        /\ procs' = [procs EXCEPT ![p] =
                IF q.j > 0 /\ series[q.j + 1].Date < series[q.j].Date
                THEN [@ EXCEPT !.pc = "swap"]
                ELSE IF q.i + 1 < Len(series)
                THEN [@ EXCEPT !.i = q.i + 1, !.j = q.i + 1]
                ELSE [@ EXCEPT !.pc = "compute"]]
        /\ UNCHANGED <<now, leadVars, given, series, trendCalls, roiVars, seoVars>>

\* data.Swap(j, j-1), first half.
SwapFirst(p) ==
    LET q == procs[p]
    IN  /\ q.pc = "swap"
        /\ series' = [series EXCEPT ![q.j + 1] = series[q.j]]
        /\ procs' = [procs EXCEPT ![p] = [@ EXCEPT !.pc = "swap2", !.tmp = series[q.j + 1]]]
        /\ UNCHANGED <<now, leadVars, given, trendCalls, roiVars, seoVars>>

\* data.Swap(j, j-1), second half, and j--.
SwapSecond(p) ==
    LET q == procs[p]
    IN  /\ q.pc = "swap2"
        /\ series' = [series EXCEPT ![q.j] = q.tmp]
        /\ procs' = [procs EXCEPT ![p] = [@ EXCEPT !.pc = "sort", !.j = q.j - 1]]
        /\ UNCHANGED <<now, leadVars, given, trendCalls, roiVars, seoVars>>

\* Lines 32 to 70: the analysis of the slice as it is now.
Compute(p) ==
    /\ procs[p].pc = "compute"
    /\ procs' = [procs EXCEPT ![p] = [@ EXCEPT !.pc = "done", !.result = AnalyzeSorted(series)]]
    /\ UNCHANGED <<now, leadVars, given, series, trendCalls, roiVars, seoVars>>

TrendConcInit ==
    /\ now = NowStart
    /\ LeadIdle
    /\ given \in SharedInputs
    /\ series = given
    /\ trendCalls = <<>>
    /\ procs = [p \in Procs |-> IdleProc]
    /\ ROIIdle
    /\ SEOIdle

TrendConcNext ==
    \E p \in Procs : Call(p) \/ SortCompare(p) \/ SwapFirst(p) \/ SwapSecond(p) \/ Compute(p)

SpecTrendConc == TrendConcInit /\ [][TrendConcNext]_vars

(***************************************************************************)
(* SpecROI: a caller computes the ROI of one piece of content.             *)
(***************************************************************************)
MaxTouches == 5

\* One touch of a customer journey of `total` touches, `days` before the sale.
Touch(revenue, position, total, days) ==
    [CustomerID |-> "c", Revenue |-> FromInt(revenue),
     AttributionWeight |-> Rat(1, total),
     IsFirstTouch |-> position = 1, IsLastTouch |-> position = total,
     TouchPosition |-> position, TotalTouches |-> total,
     DaysFromTouch |-> days, ConvertedAt |-> FirstDay * HoursPerDay]

Touches ==
    {Touch(r, p, t, t - p) : r \in {100, 250}, p \in 1..MaxTouches, t \in 1..MaxTouches}

AttributedInputs ==
    {<<>>} \cup {<<c>> : c \in {c \in Touches : c.TouchPosition <= c.TotalTouches}}
           \cup {<<Touch(100, 1, t, 1), Touch(250, t, t, 0)>> : t \in 1..MaxTouches}
           \cup {<<Touch(250, 2, t, 1), Touch(100, 1, 1, 0)>> : t \in 3..MaxTouches}
           \cup {<<[Touch(100, 1, 2, 1) EXCEPT !.AttributionWeight = Rat(3, 2)],
                   [Touch(250, 2, 2, 0) EXCEPT !.AttributionWeight = Rat(-1, 4)]>>}

AttributionModels ==
    {"first_touch", "last_touch", "linear", "time_decay", "position_based", "", "u_shaped"}

Investments ==
    {[CreationCost |-> FromInt(c), PromotionCost |-> FromInt(200), ToolsCost |-> FromInt(50),
      TimeInvested |-> FromInt(10), HourlyRate |-> FromInt(h), OpportunityCost |-> Zero]
        : c \in {0, 500}, h \in {0, 25}}
    \cup {[CreationCost |-> Zero, PromotionCost |-> Zero, ToolsCost |-> Zero,
           TimeInvested |-> Zero, HourlyRate |-> Zero, OpportunityCost |-> Zero]}

DirectInputs ==
    {<<>>, <<[CustomerID |-> "d", Revenue |-> FromInt(300), ConvertedAt |-> FirstDay * HoursPerDay,
              Source |-> "organic"]>>}

ROIMetrics(inv, direct, attr, model, period, leads) ==
    [ContentID |-> 1, Title |-> "Post", PublishedAt |-> FirstDay * HoursPerDay,
     Period |-> period, Investment |-> inv, DirectConversions |-> direct,
     AttributedConversions |-> attr, AttributionModel |-> model,
     Leads |-> leads, NewCustomers |-> 2, AverageCLV |-> FromInt(1000),
     Engagement |-> [PageViews |-> 1000, SocialShares |-> 20, Comments |-> 5,
                     Downloads |-> 3, NewsletterSignups |-> 4],
     EngagementValue |-> [PageViewValue |-> Rat(1, 8), ShareValue |-> FromInt(2),
                          CommentValue |-> FromInt(1), DownloadValue |-> FromInt(5),
                          SignupValue |-> FromInt(10)],
     BrandMetrics |-> [BrandMentions |-> FromInt(3), MentionValue |-> FromInt(20),
                       BacklinkValue |-> FromInt(100), SearchVisibilityValue |-> FromInt(50),
                       ThoughtLeadershipValue |-> Zero]]

Sale(revenue) ==
    [CustomerID |-> "d", Revenue |-> FromInt(revenue), ConvertedAt |-> FirstDay * HoursPerDay,
     Source |-> "organic"]

Cost(creation) ==
    [CreationCost |-> FromInt(creation), PromotionCost |-> Zero, ToolsCost |-> Zero,
     TimeInvested |-> Zero, HourlyRate |-> Zero, OpportunityCost |-> Zero]

\* Well-typed inputs a caller can pass though they make little sense: a
\* credit note as investment, refunds as revenue, a period of no or of
\* negative length, no leads.
EdgeInvestments == {Cost(c) : c \in {-250, 0, 250}}

EdgeDirectInputs == {<<>>, <<Sale(300)>>, <<Sale(-300)>>, <<Sale(300), Sale(-300)>>}

EdgePeriods == {-30, 0, 1, 30}

EdgeInputs ==
    {ROIMetrics(inv, direct, <<>>, "linear", period, leads)
        : inv \in EdgeInvestments, direct \in EdgeDirectInputs, period \in EdgePeriods,
          leads \in {0, 10}}

ROIInputs ==
    {ROIMetrics(inv, direct, attr, model, 30, 10)
        : inv \in Investments, direct \in DirectInputs, attr \in AttributedInputs,
          model \in AttributionModels}
    \cup EdgeInputs

\* result := CalculateContentROI(metrics)
CalculateContentROICall ==
    /\ Len(roiCalls) < MaxCalls
    /\ roiCalls' = Append(roiCalls, CalculateContentROI(metrics))
    /\ UNCHANGED <<now, leadVars, trendVars, metrics, portfolio, portfolioCalls, seoVars>>

ROIInit ==
    /\ now = NowStart
    /\ LeadIdle
    /\ TrendIdle
    /\ metrics \in ROIInputs
    /\ roiCalls = <<>>
    /\ portfolio = <<>>
    /\ portfolioCalls = <<>>
    /\ SEOIdle

ROINext == CalculateContentROICall

SpecROI == ROIInit /\ [][ROINext]_vars

(***************************************************************************)
(* SpecPortfolio: a caller computes the ROI of a portfolio of content.     *)
(***************************************************************************)
MaxItems == 3        \* largest portfolio

\* One piece of content: what it cost, what it sold, the leads it brought.
PortfolioItem(id, creation, direct, leads) ==
    [ROIMetrics(Cost(creation), direct, <<>>, "linear", 30, leads) EXCEPT !.ContentID = id]

\* Items earning 20%, -100%, 0% (nothing invested), 300% and 20% again.
PortfolioItems ==
    UNION {{PortfolioItem(id, 250, <<Sale(300)>>, 10),
            PortfolioItem(id, 250, <<>>, 0),
            PortfolioItem(id, 0, <<Sale(300)>>, 0),
            PortfolioItem(id, 100, <<Sale(300), Sale(100)>>, 5),
            PortfolioItem(id, 500, <<Sale(600)>>, 0)} : id \in 1..2}

PortfolioInputs == UNION {[1..n -> PortfolioItems] : n \in 0..MaxItems}

\* result := CalculateContentPortfolioROI(portfolio)
CalculateContentPortfolioROICall ==
    /\ Len(portfolioCalls) < MaxCalls
    /\ portfolioCalls' = Append(portfolioCalls, CalculateContentPortfolioROI(portfolio))
    /\ UNCHANGED <<now, leadVars, trendVars, metrics, roiCalls, portfolio, seoVars>>

PortfolioInit ==
    /\ now = NowStart
    /\ LeadIdle
    /\ TrendIdle
    /\ metrics = <<>>
    /\ roiCalls = <<>>
    /\ portfolio \in PortfolioInputs
    /\ portfolioCalls = <<>>
    /\ SEOIdle

PortfolioNext == CalculateContentPortfolioROICall

SpecPortfolio == PortfolioInit /\ [][PortfolioNext]_vars

(***************************************************************************)
(* SpecSEO: a caller analyses one piece of content, the clock running.     *)
(***************************************************************************)
\* n copies of s.
RECURSIVE Repeat(_, _)
Repeat(s, n) ==
    IF n <= 0 THEN ""
    ELSE IF n = 1 THEN s
    ELSE LET half == Repeat(s, n \div 2)
         IN  IF n % 2 = 0 THEN half \o half ELSE half \o half \o s

\* text filled up with the letter x to n characters.
Padded(text, n) == text \o Repeat("x", n - Len(text))

\* n links whose anchor texts cycle through anchors.
Links(n, anchors) ==
    [k \in 1..n |-> [URL |-> "https://example.com/page", AnchorText |-> anchors[1 + (k % Len(anchors))]]]

Image(alt, title, fileName) == [AltText |-> alt, Title |-> title, FileName |-> fileName]

\* sentences sentences of ten words, the keyword seo in the first of them.
Article(sentences) ==
    "Seo " \o Repeat("a ", 8) \o "on. " \o Repeat(Repeat("a ", 9) \o "on. ", sentences - 1)

\* words words in one sentence, count of them the keyword seo.
Dense(words, count) == Repeat("seo ", count) \o Repeat("word ", words - count - 1) \o "end."

BaseContent ==
    [ID |-> 1,
     Title |-> Padded("SEO guide: how to improve your ranking ", 55),
     URL |-> "https://example.com/seo-guide",
     MetaDescription |-> Padded("Learn how seo improves your ranking ", 155),
     PrimaryKeyword |-> "seo",
     SecondaryKeywords |-> <<"ranking", "">>,
     Content |-> "Seo helps your ranking. However, Google keywords matter!\n\nRead the guide.",
     Headings |-> <<[Level |-> 1, Text |-> "SEO"], [Level |-> 2, Text |-> "Why"],
                    [Level |-> 2, Text |-> "How"], [Level |-> 3, Text |-> "More"]>>,
     InternalLinks |-> Links(3, <<"seo guide">>),
     ExternalLinks |-> Links(2, <<" SEO Guide">>),
     Images |-> <<Image("a chart", "Chart", "seo-chart.png"), Image("", "", "IMG_001.JPG")>>,
     SchemaMarkup |-> "{}",
     CanonicalURL |-> "https://example.com/seo-guide",
     LoadTime |-> Rat(3, 2),
     MobileResponsive |-> TRUE]

\* The zero ContentData.
BlankContent ==
    [ID |-> 0, Title |-> "", URL |-> "", MetaDescription |-> "", PrimaryKeyword |-> "",
     SecondaryKeywords |-> <<>>, Content |-> "", Headings |-> <<>>,
     InternalLinks |-> <<>>, ExternalLinks |-> <<>>, Images |-> <<>>,
     SchemaMarkup |-> "", CanonicalURL |-> "", LoadTime |-> Zero,
     MobileResponsive |-> FALSE]

TitleInputs ==
    {"", "SEO", "seo tips", "Tips for seo", "A long way to the keyword which is seo",
     "Ultimate complete guide: best top how and why",
     "The ultimate, complete, proven and essential expert guide to powerful things"}
    \cup {Padded("seo title ", n) : n \in {39, 40, 49, 50, 60, 61, 69, 70}}
    \cup {Padded("Seo tips for SEO ", 55), Padded("Learn seo ", 55), Padded("", 55)}

MetaInputs ==
    {"", "Get it", "All about SEO"}
    \cup {Padded("Learn seo ", n) : n \in {119, 120, 149, 150, 160, 161, 170, 171}}
    \cup {Padded("About ranking ", 155)}

KeywordInputs == {"", "seo", "SEO Tips", "ranking", "seo guide", "word"}

ContentInputs ==
    {"", "   ", "...", "no sentence ends here", "Go now. Do it!",
     "Extraordinarily incomprehensible terminological institutionalization.",
     "SEO Ranking Improves Google Keywords.", "Table made the scene. He came home late.",
     "One.\n\nTwo three.\n\nFour five six?!",
     "Search engine optimization and content marketing need backlinks, meta tags, ranking, keywords and Google. For example, see this; in addition, however, therefore, moreover, furthermore, meanwhile, similarly.",
     "seoseoseo seo. SEO!", "I like SEO.", "SEO 2024 KPI."}
    \cup {Dense(100, c) : c \in {0, 1, 2, 3, 4}}
    \cup {Dense(200, c) : c \in {1, 5, 6}}
    \cup {Dense(25, 1), Dense(11, 1), Dense(21, 1), Article(49)}

\* Texts at the bounds of the word-count bands.
LongContentInputs == {Article(n) : n \in {50, 100, 400}}

HeadingInputs ==
    {<<>>, <<[Level |-> 4, Text |-> "Deep"]>>}
    \cup {[k \in 1..n |-> [Level |-> 1, Text |-> "Top"]] : n \in {1, 2}}
    \cup {[k \in 1..n |-> [Level |-> 2, Text |-> "Part"]] : n \in {1, 2, 8, 9}}

InternalLinkInputs ==
    {Links(n, <<"read more", "Read More ", "seo guide">>) : n \in {0, 1, 2, 3, 10, 11, 15, 16}}
    \cup {Links(3, <<"one", "two", "three">>), Links(4, <<"one", "two", "three", "">>),
          Links(2, <<" ">>), Links(7, <<"a", "b", "c">>),
          Links(11, <<"", "seo guide", "more", "", "", "">>)}

ExternalLinkInputs ==
    {Links(n, <<"source", "study">>) : n \in {0, 1, 2, 5, 6, 8, 9}}

ImageInputs ==
    {<<>>, <<Image("alt", "title", "seo-guide.png")>>, <<Image("", "t", "photo12.jpg")>>,
     <<Image("a", "", "my_photo.jpg"), Image("b", "", "ab.png"), Image("", "", "123.png")>>,
     <<Image("a", "", "picture"), Image("b", "b", "team photo.jpg"),
       Image("c", "", ".hidden"), Image("d", "d", "a.b.chart.svg")>>}

URLInputs ==
    {"", "https://example.com/seo-guide/", "http://example.com/seo-tips",
     "https://example.com/blog/seo-tips", "https://Example.com/SEO-Guide",
     "https://example.com/seo_guide?x=1", "https://example.com/", "https:///seo",
     "ftp://example.com/seo", Padded("https://example.com/", 75),
     Padded("https://example.com/", 76), Padded("https://example.com/", 100),
     Padded("https://example.com/", 101)}

LoadTimeInputs ==
    {Rat(0, 0), Rat(-1, 1), Zero, FromInt(1), FromInt(2), Rat(5, 2), FromInt(3), FromInt(4),
     FromInt(5), FromInt(6), Rat(1, 0)}

ContentVariants(base) ==
    {[base EXCEPT !.Title = v] : v \in TitleInputs}
    \cup {[base EXCEPT !.MetaDescription = v] : v \in MetaInputs}
    \cup {[base EXCEPT !.PrimaryKeyword = v] : v \in KeywordInputs}
    \cup {[base EXCEPT !.SecondaryKeywords = v] : v \in {<<>>, <<"", "word", "SEO">>}}
    \cup {[base EXCEPT !.Content = v] : v \in ContentInputs}
    \cup {[base EXCEPT !.Headings = v] : v \in HeadingInputs}
    \cup {[base EXCEPT !.InternalLinks = v] : v \in InternalLinkInputs}
    \cup {[base EXCEPT !.ExternalLinks = v] : v \in ExternalLinkInputs}
    \cup {[base EXCEPT !.Images = v] : v \in ImageInputs}
    \cup {[base EXCEPT !.URL = v] : v \in URLInputs}
    \cup {[base EXCEPT !.LoadTime = v] : v \in LoadTimeInputs}
    \cup {[base EXCEPT !.SchemaMarkup = v] : v \in {"", "{}"}}
    \cup {[base EXCEPT !.CanonicalURL = v] : v \in {"", "https://example.com/"}}
    \cup {[base EXCEPT !.MobileResponsive = v] : v \in BOOLEAN}

ContentInputsAll ==
    ContentVariants(BaseContent)
    \cup {[BaseContent EXCEPT !.Content = v] : v \in LongContentInputs}
    \cup {BlankContent}
    \cup {[BlankContent EXCEPT !.Content = v] : v \in ContentInputs}

\* analysis := AnalyzeContent(content), time.Now() read during the call and
\* the anchor-text map ranged over in whatever order the runtime picks.
AnalyzeContentCall ==
    /\ Len(seoCalls) < MaxCalls
    /\ \E order \in MapOrders(AnchorKeys(content.InternalLinks \o content.ExternalLinks)) :
          seoCalls' = Append(seoCalls, AnalyzeContent(content, now, order))
    /\ UNCHANGED <<now, leadVars, trendVars, roiVars, content>>

SEOInit ==
    /\ now = NowStart
    /\ LeadIdle
    /\ TrendIdle
    /\ ROIIdle
    /\ content \in ContentInputsAll
    /\ seoCalls = <<>>

SEONext == Tick \/ AnalyzeContentCall

SpecSEO == SEOInit /\ [][SEONext]_vars

(***************************************************************************)
(* Claims about the lead scorer.                                           *)
(***************************************************************************)
NonNegativeCounters(p) ==
    /\ \A v \in {p.Behavior.PageViews, p.Behavior.TotalTimeOnSite, p.Behavior.VisitCount,
                 p.Behavior.BlogPostsRead, p.Behavior.Downloads, p.Behavior.VideoWatchTime,
                 p.Behavior.SocialEngagements, p.Behavior.SearchQueries,
                 p.Intent.CTAInteractions, p.Intent.FormCompletions} : v >= 0

\* C1: for every LeadProfile whose integer counters are non-negative (any
\* strings, lists and LastActivity), CalculateLeadScore returns a score s
\* with 0 <= s <= 100.
C1_ScoreInRange ==
    NonNegativeCounters(profile) =>
        \A i \in DOMAIN leadCalls : leadCalls[i].score >= 0 /\ leadCalls[i].score <= 100

\* A profile with non-negative counters has been scored, near the top of the range.
C1_Witness ==
    /\ NonNegativeCounters(profile)
    /\ \E i \in DOMAIN leadCalls : leadCalls[i].score >= 90

\* C3: CalculateLeadScore is deterministic: two calls with the same
\* LeadProfile return the same score, whatever the wall-clock times at
\* which the two calls run.
C3_SameProfileSameScore ==
    \A i, j \in DOMAIN leadCalls : leadCalls[i].score = leadCalls[j].score

TierRank(t) ==
    CASE t = "unqualified" -> 0 [] t = "cold" -> 1 [] t = "warm" -> 2 [] t = "hot" -> 3

\* C7: AutoQualifyLead maps every integer score to exactly one tier by the
\* thresholds score >= 80 hot, 60..79 warm, 40..59 cold, below 40
\* unqualified, independent of the profile argument; hence with the tiers
\* ordered unqualified < cold < warm < hot, s1 <= s2 implies
\* tier(s1) <= tier(s2).
C7_QualifyThresholds ==
    /\ \A i \in DOMAIN qualCalls :
          LET c == qualCalls[i]
          IN  /\ (c.tier = "hot") = (c.score >= 80)
              /\ (c.tier = "warm") = (c.score >= 60 /\ c.score <= 79)
              /\ (c.tier = "cold") = (c.score >= 40 /\ c.score <= 59)
              /\ (c.tier = "unqualified") = (c.score < 40)
    /\ \A i, j \in DOMAIN qualCalls :
          qualCalls[i].score <= qualCalls[j].score
              => TierRank(qualCalls[i].tier) <= TierRank(qualCalls[j].tier)

\* The same score has been qualified with two different profiles, and a
\* lower score than it as well.
C7_Witness ==
    \E i, j \in DOMAIN qualCalls :
        /\ qualCalls[i].score = 79
        /\ qualCalls[j].score = 80
        /\ qualCalls[i].profile # qualCalls[j].profile

\* scoreWebsiteActivity with nothing credited for the depth of visit.
ActivityWithoutDepth(b) ==
    RMin(Pts((IF b.ServicePagesVisited THEN 30 ELSE 0)
             + (IF b.PricingPagesVisited THEN 35 ELSE 0)
             + (IF b.ContactPagesVisited THEN 20 ELSE 0)
             + b.SearchQueries * 5),
         Pts(100))

\* C15: when Behavior.VisitCount = 0, scoreWebsiteActivity does not divide
\* by zero and the pages-per-session (depth of visit) component contributes
\* its minimum of 0 points, for every PageViews value including
\* PageViews > 0: the website-activity score of every profile scored is
\* the one its other components give alone.
C15_ZeroVisitsNoDepthPoints ==
    (leadCalls # <<>> /\ profile.Behavior.VisitCount = 0) =>
        scoreWebsiteActivity(profile.Behavior) = ActivityWithoutDepth(profile.Behavior)

\* A sub-score lies in [0,100].
InScoreRange(x) == RGe(x, Zero) /\ RLe(x, Pts(100))

\* C25: every sub-score of the lead scorer is clamped into [0,100] before
\* it is blended: for every LeadProfile, negative Downloads,
\* SocialEngagements or SearchQueries counters included,
\* scoreContentConsumption, scoreWebsiteActivity and the four category
\* scores are >= 0 and <= 100, and CalculateLeadScore returns a value >= 0.
C25_SubScoresClamped ==
    \A i \in DOMAIN leadCalls :
        /\ InScoreRange(scoreContentConsumption(profile.Behavior))
        /\ InScoreRange(scoreWebsiteActivity(profile.Behavior))
        /\ InScoreRange(calculateDemographicScore(profile.Demographics))
        /\ InScoreRange(calculateBehavioralScore(profile.Behavior, leadCalls[i].at))
        /\ InScoreRange(calculateFirmographicScore(profile.Company))
        /\ InScoreRange(calculateIntentScore(profile.Intent))
        /\ leadCalls[i].score >= 0

(***************************************************************************)
(* Claims about the trend analyzer.                                        *)
(***************************************************************************)
\* C5: AnalyzeTrends has no side effect on its input: after the call
\* returns, the caller's series holds the same points in the same order as
\* before the call, for every input series (sorted or not).
C5_InputUnchanged == trendCalls # <<>> => series = given

\* C6: any number of AnalyzeTrends calls running concurrently on the same
\* shared series need no synchronization: under every interleaving no call
\* writes data that another call reads, and each call returns the result a
\* single sequential call on that series returns.
C6_ConcurrentCallsIndependent ==
    /\ \A p, q \in DOMAIN procs :
          p # q => ~(procs[p].pc \in {"swap", "swap2"}
                     /\ procs[q].pc \in {"sort", "swap", "swap2", "compute"})
    /\ \A p \in DOMAIN procs :
          procs[p].pc = "done" => procs[p].result = AnalyzeTrends(given)

\* C8: AnalyzeTrends on a series of 0 or 1 points returns Status
\* "insufficient_data" with Points = the series length and performs no
\* regression, anomaly detection or forecast (those fields stay empty or
\* zero); on a series of 2 or more points Status is never "insufficient_data".
C8_InsufficientData ==
    \A c \in DOMAIN trendCalls :
        LET r == trendCalls[c]
        IN  IF Len(given) < 2
            THEN /\ r.Status = "insufficient_data"
                 /\ r.Points = Len(given)
                 /\ r.LinearRegression = [Slope |-> Zero, Intercept |-> Zero,
                                          RSquared |-> Zero]
                 /\ r.Anomalies = <<>>
                 /\ r.Forecast = <<>>
                 /\ r.TrendDirection = ""
            ELSE r.Status # "insufficient_data" /\ r.Points = Len(given)

\* A one-point series has been analysed.
C8_Witness == Len(given) = 1 /\ trendCalls # <<>>

\* data is flat at v > 0 but for 10 * v at the 0-based index k.
IsFlatSpike(data, v, k) ==
    /\ RGt(v, Zero)
    /\ \A i \in 1..Len(data) :
          /\ data[i].Date = data[1].Date + (i - 1) * HoursPerDay
          /\ data[i].Value = IF i - 1 = k THEN RMul(FromInt(10), v) ELSE v

\* The anomalies reported are exactly the point at index k, as a spike of ZScore > 2.
OnlySpikeReported(r, data, k) ==
    /\ Len(r.Anomalies) = 1
    /\ r.Anomalies[1].Date = data[k + 1].Date
    /\ r.Anomalies[1].Value = data[k + 1].Value
    /\ r.Anomalies[1].Type = "spike"
    /\ RGt(r.Anomalies[1].ZScoreSq, FromInt(4))

\* C9: for every series of n >= 15 points that is flat at a value
\* v > 0 except for one point of value 10 * v, at whatever index of the
\* series that point sits, AnalyzeTrends reports that point in Anomalies
\* with Type "spike" and ZScore > 2.0, and reports no other point.
C9_SpikeAtAnyIndex ==
    \A c \in DOMAIN trendCalls, k \in 0..(Len(given) - 1), v \in SpikeBases :
        Len(given) >= 15 /\ IsFlatSpike(given, v, k)
            => OnlySpikeReported(trendCalls[c], given, k)

\* The points sit on consecutive days, in order, each value above the one
\* before by more than `rise`.
RisingBy(data, rise) ==
    /\ Len(data) >= 2
    /\ \A i \in 2..Len(data) :
          /\ data[i].Date = data[i - 1].Date + HoursPerDay
          /\ RGt(RSub(data[i].Value, data[i - 1].Value), rise)

\* The values rise by the same positive step every day.
IsArithmetic(data) ==
    /\ RisingBy(data, Zero)
    /\ \A i \in 2..Len(data) :
          RSub(data[i].Value, data[i - 1].Value) = RSub(data[2].Value, data[1].Value)

\* C18 as stated: for every series of at least 2 points on consecutive
\* days whose values are strictly increasing, AnalyzeTrends returns
\* TrendDirection "strongly_increasing" or "increasing"; when the values
\* form an arithmetic progression RSquared is 1 and TrendStrength is
\* "very_strong".
C18_EveryRiseIsIncreasing ==
    \A c \in DOMAIN trendCalls :
        LET r == trendCalls[c]
        IN  /\ RisingBy(given, Zero) =>
                  r.TrendDirection \in {"strongly_increasing", "increasing"}
            /\ IsArithmetic(given) =>
                  /\ r.LinearRegression.RSquared = FromInt(1)
                  /\ r.TrendStrength = "very_strong"

\* C18: for every series of at least 2 points on consecutive days whose
\* values rise by more than 0.01 from each day to the next, AnalyzeTrends
\* returns TrendDirection "strongly_increasing" or "increasing"; when the
\* values form an arithmetic progression (constant positive step, however
\* small) RSquared is 1 and TrendStrength is "very_strong".
C18_IncreasingSeries ==
    \A c \in DOMAIN trendCalls :
        LET r == trendCalls[c]
        IN  /\ RisingBy(given, Rat(1, 100)) =>
                  r.TrendDirection \in {"strongly_increasing", "increasing"}
            /\ IsArithmetic(given) =>
                  /\ r.LinearRegression.RSquared = FromInt(1)
                  /\ r.TrendStrength = "very_strong"

\* The series 1, 2, ..., 5 has been analysed: slope 1, "strongly_increasing".
C18_Witness ==
    /\ given = Ramp(5, FromInt(1), FromInt(1))
    /\ \E c \in DOMAIN trendCalls :
          /\ trendCalls[c].LinearRegression.Slope = FromInt(1)
          /\ trendCalls[c].LinearRegression.RSquared = FromInt(1)
          /\ trendCalls[c].TrendDirection = "strongly_increasing"
          /\ trendCalls[c].TrendStrength = "very_strong"

\* No two points of the series carry the same timestamp.
DistinctDates(data) ==
    \A i, j \in DOMAIN data : i # j => data[i].Date # data[j].Date

\* The series holding the same points in every order.
Reorderings(data) ==
    {[i \in DOMAIN data |-> data[o[i]]] :
        o \in {f \in [DOMAIN data -> DOMAIN data] :
                  \A i, j \in DOMAIN data : i # j => f[i] # f[j]}}

\* C20: the result of AnalyzeTrends does not depend on the order of the
\* input: for points with pairwise distinct timestamps, the result of a
\* call on the series as given equals the result on every other order of
\* the same points, in every field (statistics, regression, direction,
\* anomalies, volatility, forecast), and DataPoints is in time order.
C20_OrderIndependent ==
    (Len(given) <= MaxPoints /\ DistinctDates(given)) =>
        \A c \in DOMAIN trendCalls :
            /\ \A other \in Reorderings(given) : AnalyzeTrends(other) = trendCalls[c]
            /\ \A i \in 2..Len(trendCalls[c].DataPoints) :
                  trendCalls[c].DataPoints[i - 1].Date < trendCalls[c].DataPoints[i].Date

\* Three points given latest first have been analysed as the series 0, 1, 3.
C20_Witness ==
    /\ given = <<Point(2, FromInt(3)), Point(1, FromInt(1)), Point(0, FromInt(0))>>
    /\ \E c \in DOMAIN trendCalls :
          /\ trendCalls[c].DataPoints =
                <<Point(0, FromInt(0)), Point(1, FromInt(1)), Point(2, FromInt(3))>>
          /\ trendCalls[c].StartValue = FromInt(0)
          /\ trendCalls[c].EndValue = FromInt(3)

(***************************************************************************)
(* Claims about the ROI calculator.                                        *)
(***************************************************************************)
\* The share of its revenue the position-based rule is said to credit.
PositionShare(position, total) ==
    IF total = 1 THEN FromInt(1)
    ELSE IF position = 1 THEN Rat(40, 100)
    ELSE IF position = total THEN Rat(20, 100)
    ELSE Rat(40, 100 * (total - 2))

\* Journeys of one touch or of three and more, the touch inside the journey.
PositionCovered(c) ==
    /\ c.TotalTouches = 1 \/ c.TotalTouches >= 3
    /\ c.TouchPosition >= 1
    /\ c.TouchPosition <= c.TotalTouches

\* C10: under the attribution model "position_based", a conversion with
\* TotalTouches = 1 is credited 100% of its revenue; with TotalTouches
\* T >= 3 the touch at position 1 is credited 40%, the touch at position T
\* 20%, and each of the T-2 middle positions 40%/(T-2).
C10_PositionBasedShares ==
    LET attr == metrics.AttributedConversions
    IN  (/\ metrics.AttributionModel = "position_based"
         /\ \A k \in DOMAIN attr : PositionCovered(attr[k]))
        => \A i \in DOMAIN roiCalls :
              roiCalls[i].IndirectRevenue =
                  RSum([k \in DOMAIN attr |->
                          RMul(attr[k].Revenue,
                               PositionShare(attr[k].TouchPosition, attr[k].TotalTouches))])

\* A middle touch of a four-touch journey has been credited 20 of its 100.
C10_Witness ==
    /\ metrics.AttributionModel = "position_based"
    /\ Len(metrics.AttributedConversions) = 1
    /\ metrics.AttributedConversions[1].TotalTouches = 4
    /\ metrics.AttributedConversions[1].TouchPosition = 2
    /\ metrics.AttributedConversions[1].Revenue = FromInt(100)
    /\ \E i \in DOMAIN roiCalls : roiCalls[i].IndirectRevenue = FromInt(20)

\* (TotalRevenue - TotalInvestment) / TotalInvestment * 100
ROIQuotient(r) ==
    RMul(RDiv(RSub(r.TotalRevenue, r.TotalInvestment), r.TotalInvestment), FromInt(100))

\* C11 as stated: CalculateContentROI returns ROIPercentage = 0 whenever
\* TotalInvestment is 0, for any revenue, and (TotalRevenue -
\* TotalInvestment) / TotalInvestment * 100 for every other TotalInvestment;
\* the value is never the outcome of a division by zero.
C11_ZeroOnlyAtZeroInvestment ==
    \A i \in DOMAIN roiCalls :
        LET r == roiCalls[i]
        IN  /\ IsFinite(r.ROIPercentage)
            /\ r.ROIPercentage = IF r.TotalInvestment = Zero THEN Zero ELSE ROIQuotient(r)

\* C11: CalculateContentROI returns ROIPercentage = 0 whenever
\* TotalInvestment is 0 or negative, for any revenue, and (TotalRevenue -
\* TotalInvestment) / TotalInvestment * 100 whenever TotalInvestment is
\* positive; the value is never the outcome of a division by zero.
C11_ROIPercentage ==
    \A i \in DOMAIN roiCalls :
        LET r == roiCalls[i]
        IN  /\ IsFinite(r.ROIPercentage)
            /\ r.ROIPercentage =
                  IF RGt(r.TotalInvestment, Zero) THEN ROIQuotient(r) ELSE Zero

\* Revenue of 300 on no investment at all has been given an ROI of 0.
C11_Witness ==
    \E i \in DOMAIN roiCalls :
        /\ roiCalls[i].TotalInvestment = Zero
        /\ roiCalls[i].TotalRevenue = FromInt(300)
        /\ roiCalls[i].ROIPercentage = Zero

\* C12: CalculateContentROI returns PaybackPeriod = -1 exactly when
\* TotalRevenue <= 0; when TotalRevenue > 0 it returns TotalInvestment /
\* (TotalRevenue / Period), for every Period including 0 and negative ones,
\* and the daily revenue it divides by is never the outcome of a division
\* by zero.
C12_PaybackPeriod ==
    \A i \in DOMAIN roiCalls :
        LET r == roiCalls[i]
            dailyRevenue == RDiv(r.TotalRevenue, FromInt(r.Period))
        IN  /\ r.PaybackPeriod = FromInt(-1) <=> RLe(r.TotalRevenue, Zero)
            /\ RGt(r.TotalRevenue, Zero) =>
                  /\ IsFinite(dailyRevenue)
                  /\ r.PaybackPeriod = RDiv(r.TotalInvestment, dailyRevenue)

\* The float64 amounts f(1), ..., f(n) added up from the left.
RECURSIVE SumUpTo(_, _)
SumUpTo(f, n) == IF n = 0 THEN Zero ELSE RAdd(SumUpTo(f, n - 1), f[n])

\* The ints f(1), ..., f(n) added up from the left.
RECURSIVE CountUpTo(_, _)
CountUpTo(f, n) == IF n = 0 THEN 0 ELSE CountUpTo(f, n - 1) + f[n]

\* C13: for every portfolio of N >= 0 items, CalculateContentPortfolioROI
\* returns TotalInvestment and TotalRevenue equal to the sums of the
\* TotalInvestment and TotalRevenue that CalculateContentROI computes for
\* each item alone, TotalLeads and TotalConversions equal to the sums of the
\* items' leads and direct-conversion counts, and ContentResults holding
\* the N per-item results in input order.
C13_PortfolioSums ==
    \A i \in DOMAIN portfolioCalls :
        LET r == portfolioCalls[i]
            n == Len(portfolio)
            alone == [k \in 1..n |-> CalculateContentROI(portfolio[k])]
        IN  /\ r.ContentCount = n
            /\ r.ContentResults = alone
            /\ r.TotalInvestment = SumUpTo([k \in 1..n |-> alone[k].TotalInvestment], n)
            /\ r.TotalRevenue = SumUpTo([k \in 1..n |-> alone[k].TotalRevenue], n)
            /\ r.TotalLeads = CountUpTo([k \in 1..n |-> portfolio[k].Leads], n)
            /\ r.TotalConversions =
                  CountUpTo([k \in 1..n |-> Len(portfolio[k].DirectConversions)], n)

\* Three items costing 250, 100 and 500 have been added up: 850 invested,
\* 1300 earned, 15 leads, 4 conversions.
C13_Witness ==
    /\ Len(portfolio) = 3
    /\ \E i \in DOMAIN portfolioCalls :
          /\ portfolioCalls[i].TotalInvestment = FromInt(850)
          /\ portfolioCalls[i].TotalRevenue = FromInt(1300)
          /\ portfolioCalls[i].TotalLeads = 15
          /\ portfolioCalls[i].TotalConversions = 4
          /\ Len(portfolioCalls[i].ContentResults) = 3

\* The first index whose result has the highest (lowest) ROIPercentage.
EarliestBest(results) ==
    CHOOSE k \in DOMAIN results :
        /\ \A j \in DOMAIN results : RLe(results[j].ROIPercentage, results[k].ROIPercentage)
        /\ \A j \in 1..(k - 1) : results[j].ROIPercentage # results[k].ROIPercentage

EarliestWorst(results) ==
    CHOOSE k \in DOMAIN results :
        /\ \A j \in DOMAIN results : RGe(results[j].ROIPercentage, results[k].ROIPercentage)
        /\ \A j \in 1..(k - 1) : results[j].ROIPercentage # results[k].ROIPercentage

\* C14: for every non-empty portfolio, BestPerformingContent is the item
\* result whose ROIPercentage is the maximum over ContentResults and
\* WorstPerformingContent the one whose ROIPercentage is the minimum; when
\* several items tie, the one earliest in input order is chosen; for a
\* one-item portfolio both are that item.
C14_BestAndWorst ==
    \A i \in DOMAIN portfolioCalls :
        LET r == portfolioCalls[i]
            results == r.ContentResults
        IN  Len(portfolio) > 0 =>
              /\ r.BestPerformingContent = results[EarliestBest(results)]
              /\ r.WorstPerformingContent = results[EarliestWorst(results)]
              /\ Len(portfolio) = 1 =>
                    /\ r.BestPerformingContent = results[1]
                    /\ r.WorstPerformingContent = results[1]

\* Of two items that both earned 20%, then one at 300%, the first has been
\* reported as the worst; of the two at 20% alone, the first as the best too.
C14_Witness ==
    /\ Len(portfolio) >= 2
    /\ portfolio[1].ContentID = 1
    /\ portfolio[2].ContentID = 2
    /\ \E i \in DOMAIN portfolioCalls :
          LET r == portfolioCalls[i]
          IN  /\ r.ContentResults[1].ROIPercentage = FromInt(20)
              /\ r.ContentResults[2].ROIPercentage = FromInt(20)
              /\ r.ContentResults[1] # r.ContentResults[2]
              /\ r.WorstPerformingContent = r.ContentResults[1]
              /\ Len(portfolio) = 2 => r.BestPerformingContent = r.ContentResults[1]

\* investment / denominator, 0 when the denominator is 0.
CostPer(investment, denominator) ==
    IF denominator = 0 THEN Zero ELSE RDiv(investment, FromInt(denominator))

\* C16: every cost-per-lead and cost-per-acquisition figure is 0 when its
\* denominator is 0 and investment/denominator otherwise: CostPerLead and
\* CostPerAcquisition of each item's CalculateContentROI result, and
\* AverageCostPerLead and AverageCostPerConversion of
\* CalculateContentPortfolioROI, which are 0 when the portfolio's total
\* leads, or total direct conversions, are 0 while its total investment is
\* positive.
C16_CostPerFigures ==
    \A i \in DOMAIN portfolioCalls :
        LET r == portfolioCalls[i]
        IN  /\ \A k \in DOMAIN r.ContentResults :
                  LET item == r.ContentResults[k]
                  IN  /\ item.CostPerLead = CostPer(item.TotalInvestment, portfolio[k].Leads)
                      /\ item.CostPerAcquisition =
                            CostPer(item.TotalInvestment, Len(portfolio[k].DirectConversions))
            /\ (RGt(r.TotalInvestment, Zero) /\ r.TotalLeads = 0) =>
                  r.AverageCostPerLead = Zero
            /\ (RGt(r.TotalInvestment, Zero) /\ r.TotalConversions = 0) =>
                  r.AverageCostPerConversion = Zero

\* The revenue of the conversions that pass the test, added up.
FullCredit(conversions, test(_)) ==
    SumUpTo([k \in 1..Len(conversions) |->
                IF test(conversions[k]) THEN conversions[k].Revenue ELSE Zero],
            Len(conversions))

\* revenue * AttributionWeight of the conversions, as the weights are given.
WeightedCredit(conversions) ==
    SumUpTo([k \in 1..Len(conversions) |->
                RMul(conversions[k].Revenue, conversions[k].AttributionWeight)],
            Len(conversions))

NamedModels == {"first_touch", "last_touch", "linear", "time_decay", "position_based"}

IsFirst(c) == c.IsFirstTouch

IsLast(c) == c.IsLastTouch

\* C26: IndirectRevenue is the sum over the attributed conversions of the
\* revenue if IsFirstTouch (first_touch), of the revenue if IsLastTouch
\* (last_touch), of revenue * AttributionWeight (linear, the weights taken
\* as given); a model string that is none of the five names, the empty
\* string included, is treated exactly as linear; and TotalRevenue =
\* DirectRevenue + IndirectRevenue in every case.
C26_IndirectRevenue ==
    \A i \in DOMAIN roiCalls :
        LET r == roiCalls[i]
            conversions == metrics.AttributedConversions
            model == metrics.AttributionModel
        IN  /\ model = "first_touch" => r.IndirectRevenue = FullCredit(conversions, IsFirst)
            /\ model = "last_touch" => r.IndirectRevenue = FullCredit(conversions, IsLast)
            /\ (model = "linear" \/ model \notin NamedModels) =>
                    r.IndirectRevenue = WeightedCredit(conversions)
            /\ r.TotalRevenue = RAdd(r.DirectRevenue, r.IndirectRevenue)

\* A call under a model of no known name, with weights that do not add up
\* to 1, has credited the weighted revenue on top of the direct revenue.
C26_Witness ==
    \E i \in DOMAIN roiCalls :
        /\ metrics.AttributionModel \notin NamedModels
        /\ Len(metrics.AttributedConversions) = 2
        /\ metrics.AttributedConversions[1].AttributionWeight = Rat(3, 2)
        /\ roiCalls[i].IndirectRevenue = Rat(175, 2)
        /\ roiCalls[i].DirectRevenue = FromInt(300)
        /\ roiCalls[i].TotalRevenue = Rat(775, 2)

\* C28: position-based attribution conserves revenue: for every
\* TotalTouches T >= 1 the weights calculatePositionBasedWeight(p, T) of the
\* positions p = 1..T add up to exactly 1, for T = 2, where there is no
\* middle touch, in particular.
C28_PositionWeightsAddUpToOne ==
    \A i \in DOMAIN roiCalls :
        metrics.AttributionModel = "position_based" =>
            \A k \in DOMAIN metrics.AttributedConversions :
                LET T == metrics.AttributedConversions[k].TotalTouches
                IN  T >= 1 =>
                        SumUpTo([p \in 1..T |-> calculatePositionBasedWeight(p, T)], T)
                            = FromInt(1)

(***************************************************************************)
(* Claims about the anomaly detection and the regression.                  *)
(***************************************************************************)
\* The 0-based indexes of the window around i, i itself left out.
WindowAround(data, i) ==
    LET half == (IF Len(data) < 7 THEN Len(data) \div 2 ELSE 7) \div 2
    IN  {j \in (i - half)..(i + half) : j # i}

\* The square of |value - mean| / stddev of the point at i against its window.
RatioSq(data, i) ==
    LET js == WindowAround(data, i)
        mean == RDiv(SumOver(data, js), FromInt(Cardinality(js)))
        variance == RDiv(SumSqDiffOver(data, js, mean), FromInt(Cardinality(js) - 1))
    IN  RDiv(RSq(RSub(data[i + 1].Value, mean)), variance)

\* C23: in detectAnomalies, a point that is evaluated is flagged as an
\* anomaly if and only if |value - mean| / stddev > 2.0, where mean and
\* stddev are those of its surrounding window without the point itself;
\* this includes windows whose stddev is 0, where any value different from
\* the mean is flagged, and the reported ZScore is always that ratio.
C23_FlaggedIffBeyondTwoSigma ==
    DistinctDates(given) =>
        \A c \in DOMAIN trendCalls :
            LET data == trendCalls[c].DataPoints
                anomalies == trendCalls[c].Anomalies
            IN  \A i \in EvaluatedIndexes(Len(data)) :
                    WindowAround(data, i) # {} =>
                        /\ (\E k \in DOMAIN anomalies : anomalies[k].Date = data[i + 1].Date)
                              <=> RGt(RatioSq(data, i), FromInt(4))
                        /\ \A k \in DOMAIN anomalies :
                              anomalies[k].Date = data[i + 1].Date =>
                                  anomalies[k].ZScoreSq = RatioSq(data, i)

\* C29: detectAnomalies is memory- and arithmetic-safe for every series
\* length n >= 0: with the window w = 7, or n/2 when n < 7, every index j
\* read in the window [i - w/2, i + w/2] of every evaluated i in [w, n - w)
\* satisfies 0 <= j < n, and whenever the standard deviation is computed
\* the neighbour count is at least 2, so the divisor count - 1 is never 0.
C29_WindowInRange ==
    \A c \in DOMAIN trendCalls :
        LET n == Len(given)
        IN  /\ n < 3 => trendCalls[c].Anomalies = <<>>
            /\ n >= 3 =>
                  \A i \in EvaluatedIndexes(n) :
                      /\ i >= 0 /\ i < n
                      /\ \A j \in WindowIndexes(n, i) : j >= 0 /\ j < n
                      /\ Cardinality(WindowIndexes(n, i)) # 0 =>
                              Cardinality(WindowIndexes(n, i)) >= 2

\* Series of 3, of 5 and of 16 points have been analysed: the one evaluated
\* point of the first has no neighbour, that of the second has two, and the
\* last evaluated point of the third reads up to the index 11.
C29_Witness ==
    /\ trendCalls # <<>>
    /\ \/ Len(given) = 3 /\ EvaluatedIndexes(3) = {1} /\ WindowIndexes(3, 1) = {}
       \/ Len(given) = 5 /\ EvaluatedIndexes(5) = {2} /\ WindowIndexes(5, 2) = {1, 3}
                         /\ Len(trendCalls[1].Anomalies) = 1
       \/ Len(given) = 16 /\ EvaluatedIndexes(16) = {7, 8}
                          /\ WindowIndexes(16, 8) = {5, 6, 7, 9, 10, 11}
                          /\ Len(trendCalls[1].Anomalies) = 1

\* C27: calculateLinearRegression never divides by zero: for every series
\* of at least 2 points, series whose points all carry the same timestamp
\* included, Slope, Intercept and RSquared are defined numbers, RSquared is
\* 0 when all values are equal, and the forecast built from them is defined.
C27_RegressionDefined ==
    \A c \in DOMAIN trendCalls :
        LET r == trendCalls[c]
        IN  Len(given) >= 2 =>
              /\ IsFinite(r.LinearRegression.Slope)
              /\ IsFinite(r.LinearRegression.Intercept)
              /\ IsFinite(r.LinearRegression.RSquared)
              /\ (\A k \in DOMAIN given : given[k].Value = given[1].Value) =>
                      r.LinearRegression.RSquared = Zero
              /\ \A k \in DOMAIN r.Forecast : IsFinite(r.Forecast[k].PredictedValue)

(***************************************************************************)
(* Claims about the SEO analyzer.                                          *)
(***************************************************************************)
\* The score fields of an SEOAnalysis the code holds as integers.
IntegerScores(r) ==
    {r.TitleAnalysis.LengthScore, r.TitleAnalysis.KeywordScore,
     r.MetaAnalysis.LengthScore, r.MetaAnalysis.KeywordScore, r.MetaAnalysis.CTAScore,
     r.StructureAnalysis.WordCountScore, r.StructureAnalysis.H1Score,
     r.StructureAnalysis.H2Score, r.StructureAnalysis.ParagraphScore,
     r.KeywordAnalysis.PrimaryKeywordScore, r.KeywordAnalysis.IntroKeywordScore,
     r.ReadabilityAnalysis.ReadabilityScore,
     r.TechnicalAnalysis.SchemaScore, r.TechnicalAnalysis.CanonicalScore,
     r.TechnicalAnalysis.LoadTimeScore, r.TechnicalAnalysis.MobileScore,
     r.TechnicalAnalysis.URLAnalysis.LengthScore,
     r.TechnicalAnalysis.URLAnalysis.KeywordScore,
     r.TechnicalAnalysis.URLAnalysis.StructureScore,
     r.LinkAnalysis.InternalLinkScore, r.LinkAnalysis.ExternalLinkScore,
     r.OverallScore}

\* The score fields it holds as float64.
FloatScores(r) ==
    {r.TitleAnalysis.PowerWordScore, r.KeywordAnalysis.LSIScore,
     r.ReadabilityAnalysis.FleschScore, r.ReadabilityAnalysis.TransitionWordScore,
     r.LinkAnalysis.AnchorTextAnalysis.DiversityScore,
     r.ImageAnalysis.AltTextScore, r.ImageAnalysis.TitleScore,
     r.ImageAnalysis.FileNameScore, r.ImageAnalysis.ImageScore}

\* C2: for every ContentData input, every numeric score field of the
\* SEOAnalysis returned by AnalyzeContent (title, meta, structure, keyword,
\* readability, technical, URL, link, anchor-diversity and image scores) and
\* OverallScore lie in the closed range [0,100].
C2_ScoresInRange ==
    \A i \in DOMAIN seoCalls :
        /\ \A x \in IntegerScores(seoCalls[i]) : 0 <= x /\ x <= 100
        /\ \A x \in FloatScores(seoCalls[i]) : RLe(Zero, x) /\ RLe(x, FromInt(100))

\* A text whose Flesch formula gives more than 100 has been analysed and
\* scored at the top of the range.
C2_Witness ==
    /\ content.Content = "Go now. Do it!"
    /\ \E i \in DOMAIN seoCalls :
          /\ seoCalls[i].ReadabilityAnalysis.FleschScore = FromInt(100)
          /\ seoCalls[i].ReadabilityAnalysis.ReadabilityScore = 100

\* C19: for every title of length 50 to 60 whose lower-cased text starts
\* with the lower-cased non-empty primary keyword, analyzeTitleSEO returns
\* LengthScore = 100, LengthStatus = "optimal", KeywordScore = 100 and
\* KeywordPosition = "beginning"; lengths 40-49 and 61-69 give 80/"good",
\* lengths below 40 give 60/"too_short", lengths 70 and above give
\* 40/"too_long".
C19_TitleBands ==
    \A i \in DOMAIN seoCalls :
        LET a == seoCalls[i].TitleAnalysis
            length == Len(content.Title)
            keyword == ToLower(content.PrimaryKeyword)
        IN  /\ (length \in 50..60 /\ keyword # ""
                   /\ HasPrefix(ToLower(content.Title), keyword)) =>
                  /\ a.LengthScore = 100
                  /\ a.LengthStatus = "optimal"
                  /\ a.KeywordScore = 100
                  /\ a.KeywordPosition = "beginning"
            /\ length \in (40..49) \cup (61..69) =>
                  a.LengthScore = 80 /\ a.LengthStatus = "good"
            /\ length < 40 => a.LengthScore = 60 /\ a.LengthStatus = "too_short"
            /\ length >= 70 => a.LengthScore = 40 /\ a.LengthStatus = "too_long"

\* A title of 55 characters that starts with the keyword in another case,
\* and holds it a second time, has been analysed.
C19_Witness ==
    /\ content.Title = Padded("Seo tips for SEO ", 55)
    /\ content.PrimaryKeyword = "seo"
    /\ \E i \in DOMAIN seoCalls :
          /\ seoCalls[i].TitleAnalysis.Length = 55
          /\ seoCalls[i].TitleAnalysis.LengthStatus = "optimal"
          /\ seoCalls[i].TitleAnalysis.KeywordPosition = "beginning"
          /\ seoCalls[i].TitleAnalysis.KeywordScore = 100

\* C21: for content with a non-empty primary keyword and word count W > 0,
\* the keyword status is decided by the density d = occurrences / W * 100
\* as: 1 <= d <= 2 "optimal" (100); 0.5 <= d <= 3 outside that range "good"
\* (80); d < 0.5 "too_low" (50); d > 3 "too_high" (30).  In particular a
\* density of exactly 3% is "good" with score 80.
C21_DensityBands ==
    \A i \in DOMAIN seoCalls :
        LET k == seoCalls[i].KeywordAnalysis
            words == seoCalls[i].StructureAnalysis.WordCount
            d == RMul(RDiv(FromInt(k.PrimaryKeywordCount), FromInt(words)), FromInt(100))
        IN  (content.PrimaryKeyword # "" /\ words > 0) =>
              /\ k.PrimaryKeywordDensity = d
              /\ <<k.PrimaryKeywordStatus, k.PrimaryKeywordScore>> =
                    IF RGe(d, FromInt(1)) /\ RLe(d, FromInt(2)) THEN <<"optimal", 100>>
                    ELSE IF RGe(d, Rat(1, 2)) /\ RLe(d, FromInt(3)) THEN <<"good", 80>>
                    ELSE IF RLt(d, Rat(1, 2)) THEN <<"too_low", 50>>
                    ELSE <<"too_high", 30>>

\* C24: countSyllables counts at least 1 syllable for every
\* whitespace-separated word of the text, words in capital letters only or
\* made of digits included: the syllable count is at least the word count,
\* and AvgSyllablesPerWord >= 1 whenever the word count is positive.
C24_SyllablePerWord ==
    \A i \in DOMAIN seoCalls :
        LET r == seoCalls[i].ReadabilityAnalysis
        IN  /\ countSyllables(content.Content) >= countWords(content.Content)
            /\ r.WordCount > 0 =>
                  /\ r.SyllableCount >= r.WordCount
                  /\ RGe(r.AvgSyllablesPerWord, FromInt(1))

\* The sequence holds no item twice.
NoRepeats(s) == \A a, b \in DOMAIN s : s[a] = s[b] => a = b

\* The opportunity types of an analysis, in the order they were emitted.
OpportunityTypes(a) == [k \in DOMAIN a.Opportunities |-> a.Opportunities[k].Type]

Emitted(s, item) == \E k \in DOMAIN s : s[k] = item

\* C30: recommendations and opportunities are emitted only for a failed
\* threshold, at most once each: for content with no images at all
\* AnalyzeContent emits neither the alt-text recommendation nor the
\* "image_optimization" opportunity, and for content with no primary keyword
\* it emits neither the keyword-in-title recommendation nor the
\* "title_optimization" / "keyword_optimization" opportunities.
C30_OnlyFailedThresholds ==
    \A i \in DOMAIN seoCalls :
        LET a == seoCalls[i]
        IN  /\ NoRepeats(a.Recommendations)
            /\ NoRepeats(OpportunityTypes(a))
            /\ content.Images = <<>> =>
                  /\ ~Emitted(a.Recommendations,
                              "Add descriptive alt text to all images for better accessibility and SEO")
                  /\ ~Emitted(OpportunityTypes(a), "image_optimization")
            /\ content.PrimaryKeyword = "" =>
                  /\ ~Emitted(a.Recommendations,
                              "Include your primary keyword in the title, preferably near the beginning")
                  /\ ~Emitted(OpportunityTypes(a), "title_optimization")
                  /\ ~Emitted(OpportunityTypes(a), "keyword_optimization")

\* C22: for every list of internal plus external links of total size N > 0
\* and every non-empty normalized anchor text used on c of them, the anchor
\* text is listed in OverOptimizedAnchors if and only if c / N > 30%
\* exactly (c * 100 > 30 * N), e.g. also for c = 4, N = 13; and
\* DiversityScore is the number of distinct non-empty anchor texts divided
\* by N, as a percentage.
C22_OverOptimizedAnchors ==
    \A i \in DOMAIN seoCalls :
        LET a == seoCalls[i].LinkAnalysis.AnchorTextAnalysis
            links == content.InternalLinks \o content.ExternalLinks
            N == Len(links)
        IN  N > 0 =>
              /\ \A anchorText \in AnchorKeys(links) :
                    (\E k \in DOMAIN a.OverOptimizedAnchors :
                        a.OverOptimizedAnchors[k] = anchorText)
                    <=> AnchorCount(links, anchorText) * 100 > 30 * N
              /\ a.DiversityScore =
                    RMul(RDiv(FromInt(Cardinality(AnchorKeys(links))), FromInt(N)),
                         FromInt(100))

\* Every float64 of the structure, keyword and readability analyses is a number.
NoDivisionFault(a) ==
    /\ IsFinite(a.StructureAnalysis.AvgWordsPerParagraph)
    /\ IsFinite(a.KeywordAnalysis.PrimaryKeywordDensity)
    /\ IsFinite(a.KeywordAnalysis.LSIScore)
    /\ IsFinite(a.ReadabilityAnalysis.AvgWordsPerSentence)
    /\ IsFinite(a.ReadabilityAnalysis.AvgSyllablesPerWord)
    /\ IsFinite(a.ReadabilityAnalysis.FleschScore)
    /\ IsFinite(a.ReadabilityAnalysis.FleschKincaidGrade)
    /\ IsFinite(a.ReadabilityAnalysis.TransitionWordScore)

\* The body holds no word: it is empty or made of whitespace only.
NoWords(text) == \A k \in 1..Len(text) : IsSpace(Char(text, k))

\* C17: for content whose word count is 0 (empty or whitespace-only body),
\* AnalyzeContent completes with WordCount = 0, WordCountStatus =
\* "too_short" and the score 50 of that band, AvgWordsPerParagraph = 0, a
\* zero-valued readability analysis and keyword density 0; no float64 of
\* the analysis is the outcome of a division by a zero word, sentence or
\* paragraph count.
C17_ZeroWordCount ==
    NoWords(content.Content) =>
        \A i \in DOMAIN seoCalls :
            LET a == seoCalls[i]
            IN  /\ a.StructureAnalysis.WordCount = 0
                /\ a.StructureAnalysis.WordCountStatus = "too_short"
                /\ a.StructureAnalysis.WordCountScore = 50
                /\ a.StructureAnalysis.AvgWordsPerParagraph = Zero
                /\ a.ReadabilityAnalysis.SentenceCount = 0
                /\ a.ReadabilityAnalysis.WordCount = 0
                /\ a.ReadabilityAnalysis.AvgWordsPerSentence = Zero
                /\ a.ReadabilityAnalysis.AvgSyllablesPerWord = Zero
                /\ a.ReadabilityAnalysis.FleschScore = Zero
                /\ a.ReadabilityAnalysis.ReadabilityScore = 0
                /\ a.KeywordAnalysis.PrimaryKeywordCount = 0
                /\ a.KeywordAnalysis.PrimaryKeywordDensity = Zero
                /\ NoDivisionFault(a)

\* A body of three spaces, with a primary keyword set, has been analysed.
C17_Witness ==
    /\ content.Content = "   "
    /\ content.PrimaryKeyword # ""
    /\ \E i \in DOMAIN seoCalls :
          /\ seoCalls[i].StructureAnalysis.WordCountStatus = "too_short"
          /\ seoCalls[i].KeywordAnalysis.PrimaryKeywordDensity = Zero

\* C4: analyzing the same ContentData twice with AnalyzeContent yields two
\* SEOAnalysis results that are equal in every field (AnalyzedAt included),
\* whenever the two calls run.
C4_SameContentSameAnalysis ==
    \A i, j \in DOMAIN seoCalls : seoCalls[i] = seoCalls[j]

=============================================================================
